---- MODULE Spec2Model ----
(***************************************************************************)
(* Anchored dual-log engine of kel-tel-bindings: an issuer's key event log *)
(* (KEL) and transaction event log (TEL), cross-anchored on every TEL      *)
(* mutation, and the Controller operations built over them.                *)
(*                                                                         *)
(* The repository holds two drafts of the Controller:                      *)
(*   "issuer"      src/src/issuer/mod.rs      issue / revoke / rotate /    *)
(*                                            update_backers / verify      *)
(*   "controller"  src/src/controller/mod.rs  update(Issue | Revoke)       *)
(* A program constructs one of them; the variable draft says which.        *)
(***************************************************************************)
EXTENDS Integers, Sequences, FiniteSets, TLC

\* ------------------------------------------------------------------ bounds

\* Longest KEL the model lets the controller write (guards of the mutators).
MaxKel == 5
\* Most key rotations performed.
MaxRot == 1

\* The credential messages a caller uses.
Msgs == {"vc1", "vc2"}
\* The messages the producer threads of a Dispatcher use as well.
AllMsgs == Msgs \cup {"vc3"}
\* The backer updates a caller asks for: <<backers to add, backers to remove>>.
BackerUpdates == {<<{"w1"}, {}>>, <<{}, {"w1"}>>}

\* Values standing for "nothing here", shaped like the values they replace.
NoBytes == [wire |-> "none", body |-> [none |-> TRUE]]
NoDigest == [dig |-> NoBytes]
NoSig == [signer |-> -1, data |-> NoBytes]
\* IdentifierPrefix::default.
DefaultPrefix == [kind |-> "default", of |-> NoDigest]

\* ------------------------------------------------- external primitives

\* SelfAddressing::Blake3_256.derive: a collision-free digest of the bytes.
Derive(bytes) == [dig |-> bytes]

\* SelfAddressingPrefix::verify_binding.
VerifyBinding(digest, bytes) == digest = Derive(bytes)

\* EventMessage::serialize: the unsigned event message on the wire.
Serialize(ev) == [wire |-> "event", body |-> ev]

\* SignedEventMessage::serialize: the event message followed by its
\* attached signatures.
SerializeSigned(sev) == [wire |-> "signed", body |-> sev.event_message, sigs |-> <<sev.sig>>]

\* signed_message(bytes): parses a serialized signed event back.
ParseSigned(bytes) == [event_message |-> bytes.body, sig |-> bytes.sigs[1]]

\* teliox Event::serialize.
SerializeTel(ev) == [wire |-> "tel", body |-> ev]

\* message.as_bytes(): the bytes of a message string.
AsBytes(m) == [wire |-> "raw", body |-> [msg |-> m]]

\* The credential digest: SelfAddressing::Blake3_256.derive(message bytes).
MessageHash(m) == Derive(AsBytes(m))

\* The identifier of a credential's sub-TEL:
\* IdentifierPrefix::SelfAddressing(message_hash).
VcPrefix(hash) == [kind |-> "sai", of |-> hash]

\* Basic::Ed25519.derive(public key): a key as a basic prefix.
BasicPrefix(k) == [kind |-> "basic", of |-> Derive([wire |-> "key", body |-> [key |-> k]])]

\* The next-key commitment of an establishment event: the digest of the keys.
KeysDigest(ks) == Derive([wire |-> "keys", body |-> [keys |-> ks]])

\* KeyManager::sign with the key pair of index k.
SignWith(k, bytes) == [signer |-> k, data |-> bytes]

\* BasicPrefix::verify(data, signature).
VerifySig(pk, bytes, sig) == sig.signer = pk /\ sig.data = bytes

\* CryptoBox: the current and the next key pair.
KmNew == [current |-> 0, next |-> 1]

KmSign(km, bytes) == SignWith(km.current, bytes)

\* CryptoBox::rotate: next becomes current, a fresh pair becomes next.
KmRotate(km) == [current |-> km.next, next |-> km.next + 1]

\* ---------------------------------------------------------- KEL engine

\* IdentifierState::default.
DefaultState == [prefix |-> DefaultPrefix, sn |-> -1, last |-> NoBytes,
                 current |-> <<>>, next |-> NoDigest]

\* An engine that accepts a rotation without comparing its keys with the
\* committed next-key digest.
ApplyEvent_NoCommitment(st, ev) ==
    CASE ev.ilk = "icp" ->
           IF st = DefaultState /\ ev.sn = 0
           THEN [ok |-> TRUE,
                 st |-> [prefix |-> ev.prefix, sn |-> 0, last |-> Serialize(ev),
                         current |-> ev.keys, next |-> ev.next]]
           ELSE [ok |-> FALSE, st |-> st]
      [] ev.ilk = "rot" ->
           IF /\ st # DefaultState
              /\ ev.prefix = st.prefix
              /\ ev.sn = st.sn + 1
              /\ VerifyBinding(ev.prior, st.last)
           THEN [ok |-> TRUE,
                 st |-> [prefix |-> st.prefix, sn |-> ev.sn, last |-> Serialize(ev),
                         current |-> ev.keys, next |-> ev.next]]
           ELSE [ok |-> FALSE, st |-> st]
      [] OTHER ->
           IF /\ st # DefaultState
              /\ ev.prefix = st.prefix
              /\ ev.sn = st.sn + 1
              /\ VerifyBinding(ev.prior, st.last)
           THEN [ok |-> TRUE,
                 st |-> [prefix |-> st.prefix, sn |-> ev.sn, last |-> Serialize(ev),
                         current |-> st.current, next |-> st.next]]
           ELSE [ok |-> FALSE, st |-> st]

\* EventMessage::apply_to: the state after the event, or ok = FALSE when the
\* event does not extend the state (sn, chain, key commitment).
ApplyEvent(st, ev) ==
    CASE ev.ilk = "icp" ->
           IF st = DefaultState /\ ev.sn = 0
           THEN [ok |-> TRUE,
                 st |-> [prefix |-> ev.prefix, sn |-> 0, last |-> Serialize(ev),
                         current |-> ev.keys, next |-> ev.next]]
           ELSE [ok |-> FALSE, st |-> st]
      [] ev.ilk = "rot" ->
           IF /\ st # DefaultState
              /\ ev.prefix = st.prefix
              /\ ev.sn = st.sn + 1
              /\ VerifyBinding(ev.prior, st.last)
              /\ st.next = KeysDigest(ev.keys)
           THEN [ok |-> TRUE,
                 st |-> [prefix |-> st.prefix, sn |-> ev.sn, last |-> Serialize(ev),
                         current |-> ev.keys, next |-> ev.next]]
           ELSE [ok |-> FALSE, st |-> st]
      [] OTHER ->
           IF /\ st # DefaultState
              /\ ev.prefix = st.prefix
              /\ ev.sn = st.sn + 1
              /\ VerifyBinding(ev.prior, st.last)
           THEN [ok |-> TRUE,
                 st |-> [prefix |-> st.prefix, sn |-> ev.sn, last |-> Serialize(ev),
                         current |-> st.current, next |-> st.next]]
           ELSE [ok |-> FALSE, st |-> st]

\* The fold of the first n stored events.
RECURSIVE FoldKel(_, _)
FoldKel(events, n) ==
    IF n = 0 THEN DefaultState
    ELSE ApplyEvent(FoldKel(events, n - 1), events[n].event_message).st

\* EventProcessor::compute_state: None for an identifier without events.
ComputeState(db, prefix) ==
    IF db = <<>> \/ db[1].event_message.prefix # prefix
    THEN [some |-> FALSE, st |-> DefaultState]
    ELSE [some |-> TRUE, st |-> FoldKel(db, Len(db))]

\* EventProcessor::compute_state_at_sn: the fold of the events 0..sn, None
\* when the log has no event at sn.
ComputeStateAtSn(db, prefix, sn) ==
    IF db = <<>> \/ db[1].event_message.prefix # prefix \/ sn < 0 \/ sn + 1 > Len(db)
    THEN [some |-> FALSE, st |-> DefaultState]
    ELSE [some |-> TRUE, st |-> FoldKel(db, sn + 1)]

\* EventProcessor::get_event_at_sn.
EventAtSn(db, prefix, sn) ==
    IF db = <<>> \/ db[1].event_message.prefix # prefix \/ sn < 0 \/ sn + 1 > Len(db)
    THEN [some |-> FALSE, ev |-> [ilk |-> "none"]]
    ELSE [some |-> TRUE, ev |-> db[sn + 1].event_message]

\* keri EventProcessor::process: the signed event is applied to the state of
\* its identifier and its signature (index 0) is checked against the keys of
\* the resulting state; only then is it appended to the log.
ProcessorProcess(db, sev) ==
    LET Validated(ev, ap) ==
            IF /\ ap.ok
               /\ Len(ap.st.current) >= 1
               /\ VerifySig(ap.st.current[1], Serialize(ev), sev.sig)
            THEN [ok |-> TRUE, db |-> Append(db, sev)]
            ELSE [ok |-> FALSE, db |-> db]
    IN  Validated(sev.event_message,
                  ApplyEvent(IF db = <<>> THEN DefaultState ELSE FoldKel(db, Len(db)),
                             sev.event_message))

\* ------------------------------------- kerl::event_generator (KEL events)

\* An event seal as an interaction event's data carries it.
EventSeal(prefix, sn, digest) == [type |-> "event", prefix |-> prefix, sn |-> sn, event_digest |-> digest]

\* event_generator::make_icp: the inception event of the key manager's keys.
MakeIcp(km, prefix) ==
    [prefix |-> BasicPrefix(km.current), sn |-> 0, ilk |-> "icp", prior |-> NoDigest,
     keys |-> <<km.current>>, next |-> KeysDigest(<<km.next>>), data |-> <<>>]

\* event_generator::make_rot: a rotation to the key manager's current keys,
\* chained to the state.
MakeRot(km, state) ==
    [prefix |-> state.prefix, sn |-> state.sn + 1, ilk |-> "rot", prior |-> Derive(state.last),
     keys |-> <<km.current>>, next |-> KeysDigest(<<km.next>>), data |-> <<>>]

\* event_generator::make_ixn_with_seal: an interaction event carrying the
\* seals, chained to the state.
MakeIxnWithSeal(seal_list, state) ==
    [prefix |-> state.prefix, sn |-> state.sn + 1, ilk |-> "ixn", prior |-> Derive(state.last),
     keys |-> <<>>, next |-> NoDigest, data |-> seal_list]

\* ------------------------------------------------------------- KERL

\* KERL::new.
KerlNew == [prefix |-> DefaultPrefix, database |-> <<>>]

\* A KERL::get_state that answers the state of the inception event, not the
\* fold of the whole log.
KerlGetState_Stale(kerl) == ComputeStateAtSn(kerl.database, kerl.prefix, 0)

\* KERL::get_state.
KerlGetState(kerl) == ComputeState(kerl.database, kerl.prefix)

\* KERL::get_prefix.
KerlGetPrefix(kerl) == kerl.prefix

\* EventMessage::sign with one attached signature of index 0.
Signed(ev, sig) == [event_message |-> ev, sig |-> sig]

\* KERL::incept: makes, signs and processes the inception event, then takes
\* its prefix.
KerlIncept(kerl, km) ==
    LET Processed(icp, sigged, pr) ==
            IF pr.ok
            THEN [ok |-> TRUE, kerl |-> [prefix |-> icp.prefix, database |-> pr.db], ev |-> sigged]
            ELSE [ok |-> FALSE, kerl |-> kerl, ev |-> sigged]
        Process(icp, sigged) ==
            Processed(icp, sigged,
                      ProcessorProcess(kerl.database, ParseSigned(SerializeSigned(sigged))))
        Sign(icp) == Process(icp, Signed(icp, KmSign(km, Serialize(icp))))
    IN  Sign(MakeIcp(km, kerl.prefix))

\* KERL::rotate: a rotation event for the (already rotated) key manager,
\* signed with its current key and processed.
KerlRotate(kerl, km) ==
    LET Processed(sigged, pr) ==
            [ok |-> pr.ok, kerl |-> [kerl EXCEPT !.database = pr.db], ev |-> sigged]
        Process(sigged) ==
            Processed(sigged,
                      ProcessorProcess(kerl.database, ParseSigned(SerializeSigned(sigged))))
        Sign(rot) == Process(Signed(rot, KmSign(km, Serialize(rot))))
    IN  Sign(MakeRot(km, KerlGetState(kerl).st))

\* KERL::make_ixn_with_seal: an interaction event over the folded state,
\* signed, processed (validated and persisted) and returned.
KerlMakeIxnWithSeal(kerl, seal_list, km) ==
    LET Processed(ixn, pr) ==
            [ok |-> pr.ok, kerl |-> [kerl EXCEPT !.database = pr.db], ev |-> ixn]
        Process(ixn) ==
            Processed(ixn, ProcessorProcess(kerl.database, ParseSigned(SerializeSigned(ixn))))
        Sign(ev) == Process(Signed(ev, KmSign(km, Serialize(ev))))
    IN  Sign(MakeIxnWithSeal(seal_list, KerlGetState(kerl).st))

\* KERL::make_ixn_seal of the controller draft: the unsigned interaction
\* event over the folded state; nothing is persisted.
KerlMakeIxnSeal(kerl, seal_list) == MakeIxnWithSeal(seal_list, KerlGetState(kerl).st)

\* KERL::process: attaches the signature, processes the signed event.
KerlProcess(kerl, message, signature) ==
    LET Processed(sigged, pr) ==
            [ok |-> pr.ok, kerl |-> [kerl EXCEPT !.database = pr.db], ev |-> sigged]
        Process(sigged) ==
            Processed(sigged,
                      ProcessorProcess(kerl.database, ParseSigned(SerializeSigned(sigged))))
    IN  Process(Signed(message, signature))

\* KERL::get_event_at_sn.
KerlGetEventAtSn(kerl, id, sn) == EventAtSn(kerl.database, id, sn)

\* A get_state_for_seal that folds the whole log (compute_state) where the
\* code folds up to sn.
KerlGetStateForSeal_Latest(kerl, prefix, sn, digest) ==
    LET Bound(s) ==
            IF ~s.some THEN [res |-> "none", st |-> DefaultState]
            ELSE IF ~VerifyBinding(digest, s.st.last)
                 THEN [res |-> "err", st |-> DefaultState]
                 ELSE [res |-> "some", st |-> s.st]
    IN  Bound(ComputeState(kerl.database, prefix))

\* A get_state_for_seal that never compares the digest with the event at sn.
KerlGetStateForSeal_NoBinding(kerl, prefix, sn, digest) ==
    LET Bound(s) ==
            IF ~s.some THEN [res |-> "none", st |-> DefaultState]
            ELSE [res |-> "some", st |-> s.st]
    IN  Bound(ComputeStateAtSn(kerl.database, prefix, sn))

\* KERL::get_state_for_seal: the state folded up to sn when the digest binds
\* to the event at sn; res is "some", "none" or "err" (digest mismatch).
KerlGetStateForSeal(kerl, prefix, sn, digest) ==
    LET Bound(s) ==
            IF ~s.some THEN [res |-> "none", st |-> DefaultState]
            ELSE IF ~VerifyBinding(digest, s.st.last)
                 THEN [res |-> "err", st |-> DefaultState]
                 ELSE [res |-> "some", st |-> s.st]
    IN  Bound(ComputeStateAtSn(kerl.database, prefix, sn))

\* KERL::check_seal: "true" / "false" as some event seal of the KEL event at
\* sn names the TEL event; "panic" when there is no event at sn (unwrap).
KerlCheckSeal(kerl, sn, issuer_id, tel_ev) ==
    LET Sealed(event, data) ==
            IF ~event.some THEN "panic"
            ELSE IF \E i \in 1..Len(event.ev.data) :
                       /\ event.ev.data[i].type = "event"
                       /\ event.ev.data[i].prefix = tel_ev.prefix
                       /\ event.ev.data[i].sn = tel_ev.sn
                       /\ VerifyBinding(event.ev.data[i].event_digest, data)
                 THEN "true"
                 ELSE "false"
    IN  Sealed(KerlGetEventAtSn(kerl, issuer_id, sn), SerializeTel(tel_ev))

\* ------------------------------------------------- TEL events and states

\* EventSourceSeal: the KEL event that anchors a TEL event.
SourceSeal(sn, digest) == [sn |-> sn, digest |-> digest]

\* VerifiableEvent::new: a TEL event with its source seal, as persisted.
VerifiableEvent(event, seal) == [event |-> event, seal |-> seal]

\* The digests the TEL database is keyed by for credentials.
VcHashes == {MessageHash(m) : m \in AllMsgs}

\* teliox event_generator::make_inception_event: Vcp, sn 0, with a
\* self-addressing prefix over the inception data.
GenInceptionEvent(issuer_prefix, config, backer_threshold, backers) ==
    LET icd == [issuer |-> issuer_prefix, config |-> config, bt |-> backer_threshold, b |-> backers]
    IN  [family |-> "mgmt", ilk |-> "vcp", prefix |-> [kind |-> "sai", of |-> Derive([wire |-> "vcp", body |-> icd])],
         sn |-> 0, issuer |-> issuer_prefix, config |-> config, bt |-> backer_threshold,
         ba |-> backers, br |-> {}, prev |-> NoDigest]

\* A generator that builds the rotation event whatever the configuration of
\* the management state.
GenRotationEvent_NoConfigCheck(state, ba, br) ==
    [ok |-> TRUE,
     err |-> "",
     ev |-> [family |-> "mgmt", ilk |-> "vrt", prefix |-> state.prefix, sn |-> state.sn + 1,
             issuer |-> DefaultPrefix, config |-> {}, bt |-> 0,
             ba |-> ba, br |-> br, prev |-> Derive(state.last)]]

\* teliox event_generator::make_rotation_event: Vrt chained to the
\* management state; a state configured with NoBackers has no rotation.
GenRotationEvent(state, ba, br) ==
    [ok |-> state.hasBackers,
     err |-> IF state.hasBackers THEN "" ELSE "ImproperConfig",
     ev |-> [family |-> "mgmt", ilk |-> "vrt", prefix |-> state.prefix, sn |-> state.sn + 1,
             issuer |-> DefaultPrefix, config |-> {}, bt |-> 0,
             ba |-> ba, br |-> br, prev |-> Derive(state.last)]]

\* teliox event_generator::make_issuance_event: the issuance event of the
\* credential, sn 0, with the registry anchor of the management state. It is
\* given the management state and the digest only.
GenIssuanceEvent(state, message_hash) ==
    [family |-> "vc", ilk |-> "bis", prefix |-> VcPrefix(message_hash), sn |-> 0,
     prev |-> NoDigest, ra |-> EventSeal(state.prefix, state.sn, Derive(state.last))]

\* teliox event_generator::make_revoke_event: the revocation event, sn 1,
\* chained to the issuance event `last`.
GenRevokeEvent(message_hash, last, state) ==
    [family |-> "vc", ilk |-> "brv", prefix |-> VcPrefix(message_hash), sn |-> 1,
     prev |-> Derive(last), ra |-> EventSeal(state.prefix, state.sn, Derive(state.last))]

\* ManagerTelState::default.
DefaultManagerState == [prefix |-> DefaultPrefix, sn |-> -1, last |-> NoBytes,
                        issuer |-> DefaultPrefix, hasBackers |-> FALSE, backers |-> {}]

\* ManagerTelState::apply.
ApplyManagement(st, ev) ==
    CASE ev.ilk = "vcp" ->
           IF st = DefaultManagerState /\ ev.sn = 0
           THEN [ok |-> TRUE,
                 st |-> [prefix |-> ev.prefix, sn |-> 0, last |-> SerializeTel(ev),
                         issuer |-> ev.issuer, hasBackers |-> ("NB" \notin ev.config),
                         backers |-> ev.ba]]
           ELSE [ok |-> FALSE, st |-> st]
      [] OTHER ->
           IF /\ st # DefaultManagerState
              /\ ev.prefix = st.prefix
              /\ ev.sn = st.sn + 1
              /\ VerifyBinding(ev.prev, st.last)
              /\ st.hasBackers
           THEN [ok |-> TRUE,
                 st |-> [st EXCEPT !.sn = ev.sn, !.last = SerializeTel(ev),
                                   !.backers = (st.backers \ ev.br) \cup ev.ba]]
           ELSE [ok |-> FALSE, st |-> st]

\* TelState: NotIsuued | Issued(last) | Revoked.
NotIssued == [tag |-> "NotIssued", last |-> NoBytes]
Issued(last) == [tag |-> "Issued", last |-> last]
Revoked == [tag |-> "Revoked", last |-> NoBytes]

\* TelState::apply.
ApplyVc(st, ev) ==
    CASE ev.ilk = "bis" ->
           IF st = NotIssued /\ ev.sn = 0
           THEN [ok |-> TRUE, st |-> Issued(SerializeTel(ev))]
           ELSE [ok |-> FALSE, st |-> st]
      [] OTHER ->
           IF st.tag = "Issued" /\ ev.sn = 1 /\ VerifyBinding(ev.prev, st.last)
           THEN [ok |-> TRUE, st |-> Revoked]
           ELSE [ok |-> FALSE, st |-> st]

RECURSIVE FoldManagement(_, _)
FoldManagement(events, n) ==
    IF n = 0 THEN DefaultManagerState
    ELSE ApplyManagement(FoldManagement(events, n - 1), events[n].event).st

RECURSIVE FoldVc(_, _)
FoldVc(events, n) ==
    IF n = 0 THEN NotIssued
    ELSE ApplyVc(FoldVc(events, n - 1), events[n].event).st

\* teliox EventDatabase::new: no management events, no credential events.
TelDbNew == [mgmt |-> <<>>, vc |-> [h \in VcHashes |-> <<>>]]

\* teliox EventProcessor::get_management_tel_state.
ProcGetManagementTelState(db, id) ==
    IF db.mgmt = <<>> \/ db.mgmt[1].event.prefix # id
    THEN DefaultManagerState
    ELSE FoldManagement(db.mgmt, Len(db.mgmt))

\* teliox EventProcessor::get_vc_state.
ProcGetVcState(db, hash) == FoldVc(db.vc[hash], Len(db.vc[hash]))

\* teliox EventProcessor::get_events.
ProcGetEvents(db, hash) == db.vc[hash]

\* teliox EventProcessor::process: TEL-local validity only (sn continuity,
\* chain, legal state transition); the source seal is not checked. A rejected
\* event is not written.
TelProcessorProcess(db, ve) ==
    LET Management(st, ap) ==
            IF ap.ok
            THEN [ok |-> TRUE, err |-> "", db |-> [db EXCEPT !.mgmt = Append(@, ve)]]
            ELSE [ok |-> FALSE, db |-> db,
                  err |-> IF ve.event.ilk = "vrt" /\ ~st.hasBackers
                          THEN "ImproperConfig" ELSE "ImproperManagementEvent"]
        ManagementFrom(st) == Management(st, ApplyManagement(st, ve.event))
        Vc(h, ap) ==
            IF ap.ok
            THEN [ok |-> TRUE, err |-> "", db |-> [db EXCEPT !.vc[h] = Append(@, ve)]]
            ELSE [ok |-> FALSE, db |-> db,
                  err |-> IF ve.event.ilk = "bis" THEN "AlreadyIssued" ELSE "ImproperVcState"]
    IN  IF ve.event.family = "mgmt"
        THEN ManagementFrom(IF db.mgmt = <<>> THEN DefaultManagerState
                            ELSE FoldManagement(db.mgmt, Len(db.mgmt)))
        ELSE Vc(ve.event.prefix.of,
                ApplyVc(ProcGetVcState(db, ve.event.prefix.of), ve.event))

\* ---------------------------------------------------------------- Tel

\* Tel::new.
TelNew == [tel_prefix |-> DefaultPrefix, database |-> TelDbNew]

\* Tel::get_management_tel_state.
TelGetManagementTelState(tel) == ProcGetManagementTelState(tel.database, tel.tel_prefix)

\* Tel::get_vc_state.
TelGetVcState(tel, message_hash) == ProcGetVcState(tel.database, message_hash)

\* Tel::get_tel.
TelGetTel(tel, message_hash) == ProcGetEvents(tel.database, message_hash)

\* Tel::get_issuer.
TelGetIssuer(tel) == TelGetManagementTelState(tel).issuer

\* Tel::make_inception_event.
TelMakeInceptionEvent(issuer_prefix, config, backer_threshold, backers) ==
    GenInceptionEvent(issuer_prefix, config, backer_threshold, backers)

\* Tel::make_rotation_event.
TelMakeRotationEvent(tel, ba, br) == GenRotationEvent(TelGetManagementTelState(tel), ba, br)

\* Tel::make_issuance_event: derives the digest of the message and hands it,
\* with the management state, to the generator.
TelMakeIssuanceEvent(tel, message) ==
    [ok |-> TRUE, err |-> "",
     ev |-> GenIssuanceEvent(TelGetManagementTelState(tel), MessageHash(message))]

\* MessageHash::to_string and its parse::<SelfAddressingPrefix>().
HashToStr(hash) == [text |-> hash]
ParseSai(str) == str.text

\* A make_revoke_event without the check of the credential's state.
TelMakeRevokeEvent_NoStateCheck(tel, message_hash_str) ==
    LET Make(message_hash, vc_state) ==
            [ok |-> TRUE, err |-> "",
             ev |-> GenRevokeEvent(message_hash, vc_state.last, TelGetManagementTelState(tel))]
    IN  Make(ParseSai(message_hash_str), TelGetVcState(tel, ParseSai(message_hash_str)))

\* Tel::make_revoke_event: only an Issued credential has a revocation event.
TelMakeRevokeEvent(tel, message_hash_str) ==
    LET Make(message_hash, vc_state) ==
            IF vc_state.tag # "Issued"
            THEN [ok |-> FALSE, err |-> "Inproper vc state",
                  ev |-> GenRevokeEvent(message_hash, NoBytes,
                                        TelGetManagementTelState(tel))]
            ELSE [ok |-> TRUE, err |-> "",
                  ev |-> GenRevokeEvent(message_hash, vc_state.last,
                                        TelGetManagementTelState(tel))]
    IN  Make(ParseSai(message_hash_str), TelGetVcState(tel, ParseSai(message_hash_str)))

\* A Tel::process that writes the event to the database without the
\* processor's validation.
TelProcess_Unchecked(tel, event, seal) ==
    LET ve == VerifiableEvent(event, seal)
    IN  [ok |-> TRUE, err |-> "",
         tel |-> IF event.family = "mgmt"
                 THEN [tel EXCEPT !.database.mgmt = Append(@, ve)]
                 ELSE [tel EXCEPT !.database.vc[event.prefix.of] = Append(@, ve)]]

\* Tel::process: hands the verifiable event to the TEL processor.
TelProcess(tel, event, seal) ==
    LET Processed(pr) == [ok |-> pr.ok, err |-> pr.err, tel |-> [tel EXCEPT !.database = pr.db]]
    IN  Processed(TelProcessorProcess(tel.database, VerifiableEvent(event, seal)))

\* An incept_tel that takes the prefix of whatever management event it is
\* handed, processed or not.
TelInceptTel_SetsPrefixOfAnyEvent(tel, event, seal) ==
    LET Processed(pr) ==
            IF event.family = "mgmt"
            THEN [ok |-> pr.ok, err |-> pr.err,
                  tel |-> [tel_prefix |-> event.prefix, database |-> pr.db]]
            ELSE [ok |-> pr.ok, err |-> pr.err, tel |-> [tel EXCEPT !.database = pr.db]]
    IN  Processed(TelProcessorProcess(tel.database, VerifiableEvent(event, seal)))

\* Tel::incept_tel: processes the event and, when the prefix is not set yet,
\* sets it to the prefix of the resulting management state.
TelInceptTel(tel, event, seal) ==
    LET Processed(pr) ==
            IF ~pr.ok THEN [ok |-> FALSE, err |-> pr.err, tel |-> tel]
            ELSE IF tel.tel_prefix = DefaultPrefix /\ event.family = "mgmt"
                 THEN [ok |-> TRUE, err |-> "",
                       tel |-> [tel_prefix |-> ProcGetManagementTelState(pr.db, event.prefix).prefix,
                                database |-> pr.db]]
                 ELSE [ok |-> TRUE, err |-> "", tel |-> [tel EXCEPT !.database = pr.db]]
    IN  Processed(TelProcessorProcess(tel.database, VerifiableEvent(event, seal)))

\* Tel::process of the issuer draft, taking a VerifiableEvent: the first
\* processed management event sets tel_prefix.
TelProcessVerifiable(tel, ve) == TelInceptTel(tel, ve.event, ve.seal)

\* --------------------------------------------------- anchoring helpers

\* A to_event_seal that names the sequence number after the event's.
to_event_seal_WrongSn(event) == EventSeal(event.prefix, event.sn + 1, Derive(SerializeTel(event)))

\* controller::to_event_seal.
to_event_seal(event) == EventSeal(event.prefix, event.sn, Derive(SerializeTel(event)))

\* A to_source_seal that names the inception event whatever it is given.
to_source_seal_Inception(event_message) == SourceSeal(0, NoDigest)

\* controller::to_source_seal: sn and digest of the unsigned event message.
to_source_seal(event_message) == SourceSeal(event_message.sn, Derive(Serialize(event_message)))

\* ------------------------------------------------------------ state

VARIABLES
    draft,        \* which Controller the program constructed
    key_manager,  \* Controller.key_manager
    kerl,         \* Controller.kerl
    tel,          \* Controller.tel
    sigs,         \* the signature issue returned to the caller, per message
    last,         \* the last call and what it returned
    workload,     \* what the producer threads of a Dispatcher submit
    listening,    \* Dispatcher::listen was called
    pushed,       \* per producer thread, how many of its submissions it made
    queue,        \* TaskManager.queue
    task,         \* per submitted task: where its handler is, and its channel
    lock          \* the RwLock around the Dispatcher's Controller

\* The Dispatcher's part of the state.
dvars == <<workload, listening, pushed, queue, task, lock>>

vars == <<draft, key_manager, kerl, tel, sigs, last, dvars>>

\* The threads that submit tasks to a Dispatcher.
Producers == {"p1", "p2", "p3", "p4", "p5", "p6"}

\* RwLock::new: held by nobody.
LockNew == [readers |-> {}, writers |-> {}, poisoned |-> FALSE]

\* A program without a Dispatcher: nothing is submitted, queued or locked.
NoDispatcher ==
    /\ workload = "none"
    /\ listening = FALSE
    /\ pushed = [p \in Producers |-> 0]
    /\ queue = <<>>
    /\ task = <<>>
    /\ lock = LockNew

\* What a Controller call leaves behind and returns.
Outcome(res, km, k, t, sig) == [res |-> res, key_manager |-> km, kerl |-> k, tel |-> t, sig |-> sig]

Call(op, msg, sig, res) == [op |-> op, msg |-> msg, sig |-> sig, res |-> res]

\* ----------------------------------------- Controller (issuer draft)

\* Controller::incept_kel.
InceptKel(km, k, t) ==
    LET Incepted(r) ==
            IF r.ok THEN Outcome("Ok", km, r.kerl, t, NoSig)
            ELSE Outcome("Err(KeriError)", km, k, t, NoSig)
    IN  Incepted(KerlIncept(k, km))

\* Controller::incept_tel: Vcp for the backers (None: NoBackers), anchored by
\* an interaction event, source seal over the unsigned event message.
InceptTel(km, k, t, hasBackers, backers, backer_threshold) ==
    LET Processed(ixn, pr) ==
            IF ~pr.ok THEN Outcome("Err(" \o pr.err \o ")", km, ixn.kerl, t, NoSig)
            ELSE Outcome("Ok", km, ixn.kerl, pr.tel, NoSig)
        Anchored(vcp, ixn) ==
            IF ~ixn.ok THEN Outcome("Err(KeriError)", km, k, t, NoSig)
            ELSE Processed(ixn,
                     TelProcessVerifiable(t, VerifiableEvent(vcp,
                         SourceSeal(ixn.ev.event_message.sn,
                                    Derive(Serialize(ixn.ev.event_message))))))
        Anchor(vcp) ==
            Anchored(vcp,
                KerlMakeIxnWithSeal(k,
                    <<EventSeal(vcp.prefix, vcp.sn, Derive(SerializeTel(vcp)))>>, km))
    IN  Anchor(TelMakeInceptionEvent(KerlGetState(k).st.prefix,
                                     IF hasBackers THEN {} ELSE {"NB"},
                                     backer_threshold,
                                     IF hasBackers THEN backers ELSE {}))

\* Controller::init of the issuer draft.
IssuerInit(km, hasBackers, backers, backer_threshold) ==
    LET Incepted(a) ==
            IF a.res # "Ok" THEN a
            ELSE InceptTel(km, a.kerl, a.tel, hasBackers, backers, backer_threshold)
    IN  Incepted(InceptKel(km, KerlNew, TelNew))

\* Controller::update_backers: Vrt anchored by an interaction event, source
\* seal over the signed interaction event.
UpdateBackers(km, k, t, ba, br) ==
    LET Processed(ixn, pr) ==
            IF ~pr.ok THEN Outcome("Err(" \o pr.err \o ")", km, ixn.kerl, t, NoSig)
            ELSE Outcome("Ok", km, ixn.kerl, pr.tel, NoSig)
        Anchored(rcp, ixn) ==
            IF ~ixn.ok THEN Outcome("Err(KeriError)", km, k, t, NoSig)
            ELSE Processed(ixn,
                     TelProcessVerifiable(t, VerifiableEvent(rcp.ev,
                         SourceSeal(ixn.ev.event_message.sn,
                                    Derive(SerializeSigned(ixn.ev))))))
        Anchor(rcp) ==
            IF ~rcp.ok THEN Outcome("Err(" \o rcp.err \o ")", km, k, t, NoSig)
            ELSE Anchored(rcp,
                     KerlMakeIxnWithSeal(k,
                         <<EventSeal(rcp.ev.prefix, rcp.ev.sn,
                                     Derive(SerializeTel(rcp.ev)))>>, km))
    IN  Anchor(TelMakeRotationEvent(t, ba, br))

\* Controller::issue: Iss anchored by an interaction event, source seal over
\* the unsigned event message; returns the signature of the message.
Issue(km, k, t, message) ==
    LET Processed(ixn, pr) ==
            IF ~pr.ok THEN Outcome("Err(" \o pr.err \o ")", km, ixn.kerl, t, NoSig)
            ELSE Outcome("Ok", km, ixn.kerl, pr.tel, KmSign(km, AsBytes(message)))
        Anchored(iss, ixn) ==
            IF ~ixn.ok THEN Outcome("Err(KeriError)", km, k, t, NoSig)
            ELSE Processed(ixn,
                     TelProcessVerifiable(t, VerifiableEvent(iss.ev,
                         SourceSeal(ixn.ev.event_message.sn,
                                    Derive(Serialize(ixn.ev.event_message))))))
        Anchor(iss) ==
            IF ~iss.ok THEN Outcome("Err(" \o iss.err \o ")", km, k, t, NoSig)
            ELSE Anchored(iss,
                     KerlMakeIxnWithSeal(k,
                         <<EventSeal(iss.ev.prefix, iss.ev.sn,
                                     Derive(SerializeTel(iss.ev)))>>, km))
    IN  Anchor(TelMakeIssuanceEvent(t, message))

\* Controller::revoke: Rev anchored by an interaction event, source seal over
\* the signed interaction event.
Revoke(km, k, t, message) ==
    LET Processed(ixn, pr) ==
            IF ~pr.ok THEN Outcome("Err(" \o pr.err \o ")", km, ixn.kerl, t, NoSig)
            ELSE Outcome("Ok", km, ixn.kerl, pr.tel, NoSig)
        Anchored(rev_event, ixn) ==
            IF ~ixn.ok THEN Outcome("Err(KeriError)", km, k, t, NoSig)
            ELSE Processed(ixn,
                     TelProcessVerifiable(t, VerifiableEvent(rev_event.ev,
                         SourceSeal(ixn.ev.event_message.sn,
                                    Derive(SerializeSigned(ixn.ev))))))
        Anchor(rev_event) ==
            IF ~rev_event.ok THEN Outcome("Err(" \o rev_event.err \o ")", km, k, t, NoSig)
            ELSE Anchored(rev_event,
                     KerlMakeIxnWithSeal(k,
                         <<EventSeal(rev_event.ev.prefix, rev_event.ev.sn,
                                     Derive(SerializeTel(rev_event.ev)))>>, km))
    IN  Anchor(TelMakeRevokeEvent(t, HashToStr(MessageHash(message))))

\* Controller::rotate: the key manager rotates first, then the KEL.
Rotate(km, k, t) ==
    LET Rotated(rotated, r) ==
            IF r.ok THEN Outcome("Ok", rotated, r.kerl, t, NoSig)
            ELSE Outcome("Err(KeriError)", rotated, k, t, NoSig)
    IN  Rotated(KmRotate(km), KerlRotate(k, KmRotate(km)))

\* A get_pub_key that answers the keys of the inception event, whatever the
\* key state the credential is anchored in.
GetPubKey_InceptionKeys(k, t, message_hash) ==
    IF TelGetTel(t, message_hash) = <<>> THEN [res |-> "Err(No events in tel)", keys |-> <<>>]
    ELSE [res |-> "Ok", keys |-> ComputeStateAtSn(k.database, k.prefix, 0).st.current]

\* A get_pub_key that answers the keys of the latest KEL state.
GetPubKey_CurrentKeys(k, t, message_hash) ==
    IF TelGetTel(t, message_hash) = <<>> THEN [res |-> "Err(No events in tel)", keys |-> <<>>]
    ELSE [res |-> "Ok", keys |-> KerlGetState(k).st.current]

\* Controller::get_pub_key: the keys of the KEL state the last TEL event of
\* the credential is anchored in. check_seal is asked about the issuer's KEL
\* event at the source seal's sn and the TEL event, as KERL::check_seal
\* takes them.
GetPubKey(k, t, message_hash) ==
    LET Keys(st) ==
            IF st.res = "err" THEN [res |-> "Err(Last event digests doesn't match)", keys |-> <<>>]
            ELSE IF st.res = "none" THEN [res |-> "Err(No key data)", keys |-> <<>>]
            ELSE [res |-> "Ok", keys |-> st.st.current]
        Checked(ver_event, issuer, chk) ==
            IF chk = "panic" THEN [res |-> "panic", keys |-> <<>>]
            ELSE IF chk = "false" THEN [res |-> "Err(improper seal)", keys |-> <<>>]
            ELSE Keys(KerlGetStateForSeal(k, issuer, ver_event.seal.sn, ver_event.seal.digest))
        Check(ver_event, issuer) ==
            Checked(ver_event, issuer,
                    KerlCheckSeal(k, ver_event.seal.sn, issuer, ver_event.event))
        Last(events) ==
            IF events = <<>> THEN [res |-> "Err(No events in tel)", keys |-> <<>>]
            ELSE Check(events[Len(events)], TelGetIssuer(t))
    IN  Last(TelGetTel(t, message_hash))

\* The fold in Controller::verify: starting from true, every key of the key
\* set has to validate the signature over the message.
VerifyKeys(keys, message, signature) ==
    IF \A i \in 1..Len(keys) : VerifySig(keys[i], AsBytes(message), signature)
    THEN "Ok(true)"
    ELSE "Ok(false)"

\* A verify that treats a revoked credential like an issued one.
Verify_RevokedAsIssued(k, t, message, signature) ==
    LET Signed_by(key) ==
            IF key.res # "Ok" THEN key.res
            ELSE IF \A i \in 1..Len(key.keys) :
                       VerifySig(key.keys[i], AsBytes(message), signature)
                 THEN "Ok(true)"
                 ELSE "Ok(false)"
        InState(state) ==
            CASE state.tag = "NotIssued" -> "Err(Not yet issued)"
              [] state.tag = "Revoked" -> Signed_by(GetPubKey(k, t, MessageHash(message)))
              [] OTHER -> Signed_by(GetPubKey(k, t, MessageHash(message)))
    IN  InState(TelGetVcState(t, MessageHash(message)))

\* A verify that answers Ok(false) for a credential that was never issued.
Verify_NotIssuedFalse(k, t, message, signature) ==
    LET Signed_by(key) ==
            IF key.res # "Ok" THEN key.res
            ELSE IF \A i \in 1..Len(key.keys) :
                       VerifySig(key.keys[i], AsBytes(message), signature)
                 THEN "Ok(true)"
                 ELSE "Ok(false)"
        InState(state) ==
            CASE state.tag = "NotIssued" -> "Ok(false)"
              [] state.tag = "Revoked" -> "Err(VC was revoked)"
              [] OTHER -> Signed_by(GetPubKey(k, t, MessageHash(message)))
    IN  InState(TelGetVcState(t, MessageHash(message)))

\* Controller::verify: every key of the issuance-time state must validate the
\* signature over the message.
Verify(k, t, message, signature) ==
    LET Signed_by(key) ==
            IF key.res # "Ok" THEN key.res
            ELSE VerifyKeys(key.keys, message, signature)
        InState(state) ==
            CASE state.tag = "NotIssued" -> "Err(Not yet issued)"
              [] state.tag = "Revoked" -> "Err(VC was revoked)"
              [] OTHER -> Signed_by(GetPubKey(k, t, MessageHash(message)))
    IN  InState(TelGetVcState(t, MessageHash(message)))

\* --------------------------------------- Controller (controller draft)

\* Controller::init of the controller draft: KEL inception, management TEL
\* inception with backers [] and threshold 0, anchored by an interaction
\* event.
ControllerInit(km) ==
    LET Processed(ixn, pr) ==
            IF ~pr.ok THEN Outcome("Err(" \o pr.err \o ")", km, ixn.kerl, TelNew, NoSig)
            ELSE Outcome("Ok", km, ixn.kerl, pr.tel, NoSig)
        Anchored(vcp, ixn) ==
            IF ~ixn.ok THEN Outcome("Err(KeriError)", km, KerlNew, TelNew, NoSig)
            ELSE Processed(ixn, TelInceptTel(TelNew, vcp, to_source_seal(ixn.ev.event_message)))
        Anchor(inc, vcp) ==
            Anchored(vcp, KerlMakeIxnWithSeal(inc.kerl, <<to_event_seal(vcp)>>, km))
        Incepted(inc) ==
            IF ~inc.ok THEN Outcome("Err(KeriError)", km, KerlNew, TelNew, NoSig)
            ELSE Anchor(inc, TelMakeInceptionEvent(KerlGetPrefix(inc.kerl), {}, 0, {}))
    IN  Incepted(KerlIncept(KerlNew, km))

\* An update that drops the error of the TEL processing.
Update_DropsTelError(km, k, t, isIssue, message) ==
    LET Processed(kp, pr) ==
            Outcome("Ok", km, kp.kerl, pr.tel, NoSig)
        Anchored(ev, ixn, kp) ==
            IF ~kp.ok THEN Outcome("Err(KeriError)", km, k, t, NoSig)
            ELSE Processed(kp, TelProcess(t, ev.ev, to_source_seal(ixn)))
        Sign(ev, ixn) == Anchored(ev, ixn, KerlProcess(k, ixn, KmSign(km, Serialize(ixn))))
        Anchor(ev) ==
            IF ~ev.ok THEN Outcome("Err(" \o ev.err \o ")", km, k, t, NoSig)
            ELSE Sign(ev, KerlMakeIxnSeal(k, <<to_event_seal(ev.ev)>>))
    IN  Anchor(IF isIssue THEN TelMakeIssuanceEvent(t, message)
               ELSE TelMakeRevokeEvent(t, HashToStr(MessageHash(message))))

\* Controller::update: makes the TEL event, anchors it in a signed and
\* processed interaction event, then processes the TEL event with the source
\* seal of that interaction event. isIssue tells UpdateType::Issue(message)
\* from UpdateType::Revoke(hash of message). Each step's result is bound
\* once and handed on to the next step.
Update(km, k, t, isIssue, message) ==
    LET Processed(kp, pr) ==
            IF ~pr.ok THEN Outcome("Err(" \o pr.err \o ")", km, kp.kerl, t, NoSig)
            ELSE Outcome("Ok", km, kp.kerl, pr.tel, NoSig)
        Anchored(ev, ixn, kp) ==
            IF ~kp.ok THEN Outcome("Err(KeriError)", km, k, t, NoSig)
            ELSE CHOOSE o \in {Processed(kp, pr) :
                               pr \in {TelProcess(t, ev.ev, to_source_seal(ixn))}} : TRUE
        Sign(ev, ixn) ==
            CHOOSE o \in {Anchored(ev, ixn, kp) :
                          kp \in {KerlProcess(k, ixn, KmSign(km, Serialize(ixn)))}} : TRUE
        Anchor(ev) ==
            IF ~ev.ok THEN Outcome("Err(" \o ev.err \o ")", km, k, t, NoSig)
            ELSE CHOOSE o \in {Sign(ev, ixn) :
                               ixn \in {KerlMakeIxnSeal(k, <<to_event_seal(ev.ev)>>)}} : TRUE
    IN  CHOOSE o \in {Anchor(ev) :
                      ev \in {IF isIssue THEN TelMakeIssuanceEvent(t, message)
                               ELSE TelMakeRevokeEvent(t, HashToStr(MessageHash(message)))}} : TRUE

\* ------------------------------------------------------------ actions

\* The signatures a caller may present to verify for a message: one made
\* over it by any key the key manager has held, or bytes that no key signed.
SigInputs(m) == {SignWith(key, AsBytes(m)) : key \in 0..MaxRot} \cup {NoSig}

\* A process that writes the TEL event first and is killed before the
\* anchoring interaction event is written.
CrashBetweenWrites_TelFirst(k, t, r) == [kerl |-> k, tel |-> r.tel]

\* What the two stores hold when the process is killed between the two
\* writes of a mutating call whose outcome would be r: make_ixn_with_seal
\* (kerl.process in the controller draft) has persisted the interaction
\* event, tel.process has not run.
CrashBetweenWrites(k, t, r) == [kerl |-> r.kerl, tel |-> t]

\* The program after construction, or killed between the two writes of the
\* management TEL inception.
Init ==
    /\ draft \in {"issuer", "controller"}
    /\ sigs = [m \in Msgs |-> NoSig]
    /\ \E hasBackers \in BOOLEAN :
         \E r \in {IF draft = "issuer" THEN IssuerInit(KmNew, hasBackers, {}, 0)
                   ELSE ControllerInit(KmNew)} :
             /\ draft = "controller" => hasBackers
             /\ r.res = "Ok"
             /\ key_manager = r.key_manager
             /\ \/ /\ last = Call("init", "", NoSig, "Ok")
                   /\ kerl = r.kerl
                   /\ tel = r.tel
                \/ /\ last = Call("crash", "", NoSig, "init")
                   /\ kerl = CrashBetweenWrites(KerlNew, TelNew, r).kerl
                   /\ tel = CrashBetweenWrites(KerlNew, TelNew, r).tel
    /\ NoDispatcher

Apply(op, msg, sig, r) ==
    /\ last.op # "crash"
    /\ key_manager' = r.key_manager
    /\ kerl' = r.kerl
    /\ tel' = r.tel
    /\ last' = Call(op, msg, sig, r.res)
    /\ UNCHANGED dvars

IssueStep(m) ==
    /\ draft = "issuer"
    /\ Len(kerl.database) < MaxKel
    /\ \E r \in {Issue(key_manager, kerl, tel, m)} :
          /\ Apply("issue", m, r.sig, r)
          /\ sigs' = IF r.res = "Ok" THEN [sigs EXCEPT ![m] = r.sig] ELSE sigs
    /\ UNCHANGED draft

RevokeStep(m) ==
    /\ draft = "issuer"
    /\ Len(kerl.database) < MaxKel
    /\ Apply("revoke", m, NoSig, Revoke(key_manager, kerl, tel, m))
    /\ UNCHANGED <<draft, sigs>>

RotateStep ==
    /\ draft = "issuer"
    /\ Len(kerl.database) < MaxKel
    /\ key_manager.current < MaxRot
    /\ Apply("rotate", "", NoSig, Rotate(key_manager, kerl, tel))
    /\ UNCHANGED <<draft, sigs>>

UpdateBackersStep(ba, br) ==
    /\ draft = "issuer"
    /\ Len(kerl.database) < MaxKel
    /\ Apply("update_backers", "", NoSig, UpdateBackers(key_manager, kerl, tel, ba, br))
    /\ UNCHANGED <<draft, sigs>>

VerifyStep(m, sig) ==
    /\ draft = "issuer"
    /\ last.op # "crash"
    /\ last' = Call("verify", m, sig, Verify(kerl, tel, m, sig))
    /\ UNCHANGED <<draft, key_manager, kerl, tel, sigs, dvars>>

UpdateIssueStep(m) ==
    /\ draft = "controller"
    /\ Len(kerl.database) < MaxKel
    /\ Apply("update_issue", m, NoSig, Update(key_manager, kerl, tel, TRUE, m))
    /\ UNCHANGED <<draft, sigs>>

UpdateRevokeStep(m) ==
    /\ draft = "controller"
    /\ Len(kerl.database) < MaxKel
    /\ Apply("update_revoke", m, NoSig, Update(key_manager, kerl, tel, FALSE, m))
    /\ UNCHANGED <<draft, sigs>>

\* The mutating calls the program could be in the middle of.
Mutations ==
    IF draft = "issuer"
    THEN {[op |-> "issue", r |-> Issue(key_manager, kerl, tel, m)] : m \in Msgs}
         \cup {[op |-> "revoke", r |-> Revoke(key_manager, kerl, tel, m)] : m \in Msgs}
         \cup {[op |-> "update_backers", r |-> UpdateBackers(key_manager, kerl, tel, u[1], u[2])] :
                   u \in BackerUpdates}
    ELSE {[op |-> "update_issue", r |-> Update(key_manager, kerl, tel, TRUE, m)] : m \in Msgs}
         \cup {[op |-> "update_revoke", r |-> Update(key_manager, kerl, tel, FALSE, m)] : m \in Msgs}

\* The process is killed between the KEL write and the TEL write of a
\* mutating call; the stores keep what was persisted and nothing runs
\* after it.
CrashStep ==
    /\ last.op # "crash"
    /\ Len(kerl.database) < MaxKel
    /\ \E c \in Mutations :
          /\ c.r.kerl # kerl
          /\ kerl' = CrashBetweenWrites(kerl, tel, c.r).kerl
          /\ tel' = CrashBetweenWrites(kerl, tel, c.r).tel
          /\ last' = Call("crash", "", NoSig, c.op)
    /\ UNCHANGED <<draft, key_manager, sigs, dvars>>

Next ==
    \/ CrashStep
    \/ \E m \in Msgs : IssueStep(m)
    \/ \E m \in Msgs : RevokeStep(m)
    \/ RotateStep
    \/ \E u \in BackerUpdates : UpdateBackersStep(u[1], u[2])
    \/ \E m \in Msgs : \E sig \in SigInputs(m) : VerifyStep(m, sig)
    \/ \E m \in Msgs : UpdateIssueStep(m)
    \/ \E m \in Msgs : UpdateRevokeStep(m)

Spec == Init /\ [][Next]_vars

\* ------------------------------------------- rotate with a failing store

\* Controller::rotate when KERL::rotate returns an error (the store rejects
\* the write of the rotation event, or signing fails): the key manager was
\* rotated by the statement before, the KEL is as it was.
RotateKerlError(km, k, t) == Outcome("Err(KeriError)", KmRotate(km), k, t, NoSig)

RotateFaultStep ==
    /\ draft = "issuer"
    /\ Len(kerl.database) < MaxKel
    /\ key_manager.current < MaxRot
    /\ Apply("rotate", "", NoSig, RotateKerlError(key_manager, kerl, tel))
    /\ UNCHANGED <<draft, sigs>>

FaultNext ==
    \/ Next
    \/ RotateFaultStep

FaultSpec == Init /\ [][FaultNext]_vars

\* ------------------------------------------- verify over any key state

\* The largest key set drawn.
MaxKeys == 2

\* The key sets an issuance-time key state may hold: none, one or several
\* keys.
KeySets == UNION {[1..n -> 0..MaxRot] : n \in 0..MaxKeys}

\* The signing thresholds of a key state with the given keys.
Thresholds(keys) == 1..(IF Len(keys) = 0 THEN 1 ELSE Len(keys))

\* A key state, a message and a signature for the fold of verify.
KeysInit ==
    /\ draft = "issuer"
    /\ key_manager = KmNew
    /\ kerl = KerlNew
    /\ tel = TelNew
    /\ sigs = [m \in Msgs |-> NoSig]
    /\ \E keys \in KeySets : \E threshold \in Thresholds(keys) :
         \E m \in Msgs : \E sig \in SigInputs(m) :
             last = [op |-> "pending", msg |-> m, sig |-> sig, res |-> "",
                     keys |-> keys, threshold |-> threshold]
    /\ NoDispatcher

\* verify folds the keys of the state over the signature.
VerifyKeysStep ==
    /\ last.op = "pending"
    /\ last' = [last EXCEPT !.op = "verify_keys",
                            !.res = VerifyKeys(last.keys, last.msg, last.sig)]
    /\ UNCHANGED <<draft, key_manager, kerl, tel, sigs, dvars>>

KeysNext == VerifyKeysStep

KeysSpec == KeysInit /\ [][KeysNext]_vars

\* ------------------------------------------------- KERL as a library

\* Longest KEL written through the KERL interface alone.
MaxKerl == 3

\* Seal::Digest: a seal that carries a digest only.
DigestSeal(digest) == [type |-> "digest", dig |-> digest]

\* The management state the TEL events below are generated over.
SealedOver == [prefix |-> DefaultPrefix, sn |-> 0, last |-> NoBytes]

\* TEL events a caller asks check_seal about: the issuance of each
\* credential and the revocation of the first.
SealedEvents ==
    {GenIssuanceEvent(SealedOver, MessageHash(m)) : m \in Msgs}
        \cup {GenRevokeEvent(MessageHash("vc1"), NoBytes, SealedOver)}

\* The seal lists a caller anchors with make_ixn_with_seal: none, the event
\* seal of a TEL event, a digest seal of it, an event seal with another sn,
\* and a digest seal followed by the event seal.
SealLists ==
    {<<>>}
        \cup {<<to_event_seal(e)>> : e \in SealedEvents}
        \cup {<<DigestSeal(Derive(SerializeTel(e)))>> :
                 e \in {GenIssuanceEvent(SealedOver, MessageHash("vc1"))}}
        \cup {<<EventSeal(e.prefix, e.sn + 1, Derive(SerializeTel(e)))>> :
                 e \in {GenIssuanceEvent(SealedOver, MessageHash("vc1"))}}
        \cup {<<DigestSeal(Derive(SerializeTel(e))), to_event_seal(e)>> :
                 e \in {GenIssuanceEvent(SealedOver, MessageHash("vc2"))}}

\* The key managers a caller hands to KERL::rotate: its own one not rotated,
\* rotated once, rotated twice.
RotateWith(km) == {km, KmRotate(km), KmRotate(KmRotate(km))}

\* The digests a caller hands to get_state_for_seal: of each event of the
\* log, and one of no event.
SealDigests(k) ==
    {Derive(Serialize(k.database[i].event_message)) : i \in 1..Len(k.database)}
        \cup {NoDigest}

\* KERL::new, then KERL::incept with a fresh key manager.
KerlInit ==
    /\ draft = "issuer"
    /\ key_manager = KmNew
    /\ kerl = KerlIncept(KerlNew, KmNew).kerl
    /\ tel = TelNew
    /\ sigs = [m \in Msgs |-> NoSig]
    /\ last = [op |-> "incept", res |-> "Ok"]
    /\ NoDispatcher

\* KERL::make_ixn_with_seal.
KerlIxnStep ==
    /\ Len(kerl.database) < MaxKerl
    /\ \E seal_list \in SealLists :
         \E r \in {KerlMakeIxnWithSeal(kerl, seal_list, key_manager)} :
             /\ kerl' = r.kerl
             /\ last' = [op |-> "make_ixn_with_seal",
                         res |-> IF r.ok THEN "Ok" ELSE "Err(KeriError)"]
    /\ UNCHANGED <<draft, key_manager, tel, sigs, dvars>>

\* KERL::rotate with the key manager the caller hands in; the caller keeps
\* that key manager when the rotation went through.
KerlRotateStep ==
    /\ Len(kerl.database) < MaxKerl
    /\ key_manager.current < MaxRot
    /\ \E km \in RotateWith(key_manager) :
         \E r \in {KerlRotate(kerl, km)} :
             /\ kerl' = r.kerl
             /\ key_manager' = IF r.ok THEN km ELSE key_manager
             /\ last' = [op |-> "rotate", km |-> km,
                         res |-> IF r.ok THEN "Ok" ELSE "Err(KeriError)"]
    /\ UNCHANGED <<draft, tel, sigs, dvars>>

\* KERL::get_state_for_seal.
KerlGetStateForSealStep ==
    /\ \E prefix \in {kerl.prefix, DefaultPrefix} : \E sn \in 0..MaxKerl :
         \E digest \in SealDigests(kerl) :
             \E r \in {KerlGetStateForSeal(kerl, prefix, sn, digest)} :
                 last' = [op |-> "get_state_for_seal", prefix |-> prefix, sn |-> sn,
                          digest |-> digest, res |-> r.res, st |-> r.st]
    /\ UNCHANGED <<draft, key_manager, kerl, tel, sigs, dvars>>

\* KERL::check_seal.
KerlCheckSealStep ==
    /\ \E sn \in 0..MaxKerl : \E tel_ev \in SealedEvents :
         last' = [op |-> "check_seal", sn |-> sn, tel_ev |-> tel_ev,
                  res |-> KerlCheckSeal(kerl, sn, kerl.prefix, tel_ev)]
    /\ UNCHANGED <<draft, key_manager, kerl, tel, sigs, dvars>>

KerlNext ==
    \/ KerlIxnStep
    \/ KerlRotateStep
    \/ KerlGetStateForSealStep
    \/ KerlCheckSealStep

KerlSpec == KerlInit /\ [][KerlNext]_vars

\* -------------------------------------------------- Tel as a library

\* Most events written through the Tel interface alone.
MaxTel == 3

\* The number of events the TEL holds, management and credential ones.
TelSize(t) ==
    Len(t.database.mgmt)
        + Cardinality({<<h, i>> \in VcHashes \X (1..MaxKel) : i <= Len(t.database.vc[h])})

\* The issuer whose management TEL is incepted.
TelIssuer == KerlIncept(KerlNew, KmNew).kerl.prefix

\* The source seal handed in with an event; Tel does not look at it.
AnySourceSeal == SourceSeal(1, NoDigest)

\* Management inception events a caller may hand in: with backers allowed,
\* with a first backer, without backers. Their identifiers differ.
InceptionEvents ==
    {TelMakeInceptionEvent(TelIssuer, {}, 0, {}),
     TelMakeInceptionEvent(TelIssuer, {}, 0, {"w1"}),
     TelMakeInceptionEvent(TelIssuer, {"NB"}, 0, {})}

\* Backer rotations over the management state, and the same events under the
\* identifier of another management TEL.
RotationEvents(t) ==
    {TelMakeRotationEvent(t, u[1], u[2]).ev : u \in BackerUpdates}
        \cup {[TelMakeRotationEvent(t, u[1], u[2]).ev EXCEPT !.prefix = vcp.prefix] :
                 u \in BackerUpdates, vcp \in InceptionEvents}

\* Issuances and revocations of the credentials.
CredentialEvents(t) ==
    {TelMakeIssuanceEvent(t, m).ev : m \in Msgs}
        \cup {TelMakeRevokeEvent(t, HashToStr(MessageHash(m))).ev : m \in Msgs}

\* Tel::new.
TelInit ==
    /\ draft = "controller"
    /\ key_manager = KmNew
    /\ kerl = KerlNew
    /\ tel = TelNew
    /\ sigs = [m \in Msgs |-> NoSig]
    /\ last = [op |-> "new", res |-> "Ok"]
    /\ NoDispatcher

\* Tel::incept_tel with a management event.
TelInceptTelStep ==
    /\ TelSize(tel) < MaxTel
    /\ \E event \in InceptionEvents \cup RotationEvents(tel) :
         \E r \in {TelInceptTel(tel, event, AnySourceSeal)} :
             /\ tel' = r.tel
             /\ last' = [op |-> "incept_tel", event |-> event,
                         res |-> IF r.ok THEN "Ok" ELSE "Err(" \o r.err \o ")"]
    /\ UNCHANGED <<draft, key_manager, kerl, sigs, dvars>>

\* Tel::process with a credential event or a backer rotation.
TelProcessStep ==
    /\ TelSize(tel) < MaxTel
    /\ \E event \in CredentialEvents(tel) \cup RotationEvents(tel) :
         \E r \in {TelProcess(tel, event, AnySourceSeal)} :
             /\ tel' = r.tel
             /\ last' = [op |-> "process", event |-> event,
                         res |-> IF r.ok THEN "Ok" ELSE "Err(" \o r.err \o ")"]
    /\ UNCHANGED <<draft, key_manager, kerl, sigs, dvars>>

TelNext ==
    \/ TelInceptTelStep
    \/ TelProcessStep

TelSpec == TelInit /\ [][TelNext]_vars

\* ------------------------------------------------------- Dispatcher

\* Capacity of the Dispatcher's task queue: TaskManager::new(5).
QueueCapacity == 5

\* A submission: the Dispatcher method called and its argument.
Req(kind, msg) == [kind |-> kind, msg |-> msg]

\* What each producer thread submits, in its order, per workload.
Script(w, p) ==
    CASE w = "responses" /\ p = "p1" ->
           <<Req("issue", "vc1"), Req("sign", "vc1"), Req("get_kel", "")>>
      [] w = "revocation" /\ p = "p1" ->
           <<Req("issue", "vc1"), Req("revoke", "vc1"), Req("get_tel", "vc1")>>
      [] w = "reissue" /\ p = "p1" ->
           <<Req("issue", "vc1"), Req("issue", "vc1"), Req("get_kel", "")>>
      [] w = "multithread" /\ p = "p1" -> <<Req("issue", "vc1")>>
      [] w = "multithread" /\ p = "p2" -> <<Req("get_kel", "")>>
      [] w = "multithread" /\ p = "p3" -> <<Req("issue", "vc2")>>
      [] w = "multithread" /\ p = "p4" -> <<Req("get_kel", "")>>
      [] w = "multithread" /\ p = "p5" -> <<Req("issue", "vc3")>>
      [] w = "multithread" /\ p = "p6" -> <<Req("get_kel", "")>>
      [] w = "backlog" /\ p = "p1" ->
           <<Req("get_kel", ""), Req("sign", "vc1"), Req("get_kel", ""),
             Req("sign", "vc1"), Req("get_kel", ""), Req("sign", "vc1")>>
      [] w = "dropped" /\ p = "p1" ->
           <<Req("get_kel", ""), Req("issue", "vc1"), Req("issue", "vc2"), Req("get_kel", "")>>
      [] OTHER -> <<>>

Workloads == {"responses", "revocation", "reissue", "multithread", "backlog", "dropped"}

\* The submissions whose caller drops the receiving end of the reply channel
\* without waiting for the reply.
DroppedReceivers(w) == IF w = "dropped" THEN {<<"p1", 1>>, <<"p1", 2>>} ELSE {}

\* A task is named by its producer and its position in the producer's script.
TaskIds(w) == UNION {{<<p, i>> : i \in 1..Len(Script(w, p))} : p \in Producers}

Request(id) == Script(workload, id[1])[id[2]]

\* A task before it is submitted: its reply channel is empty and the caller
\* holds the receiving end (rx).
NewTask == [st |-> "unsubmitted", replies |-> <<>>, res |-> "", tel |-> TelNew, rx |-> TRUE]

\* crossbeam ArrayQueue::push: refused when the queue holds its capacity.
QueuePush(q, cap, x) ==
    IF Len(q) >= cap THEN [ok |-> FALSE, q |-> q] ELSE [ok |-> TRUE, q |-> Append(q, x)]

\* A push onto a queue without a bound.
TaskManagerPush_Unbounded(q, x) == [res |-> "Ok", q |-> Append(q, x)]

\* TaskManager::push: the addressed task is queued, or the push fails with
\* Error::QueueError and the task (with its sender) is dropped.
TaskManagerPush(q, x) ==
    LET Pushed(r) == [res |-> IF r.ok THEN "Ok" ELSE "Err(QueueError)", q |-> r.q]
    IN  Pushed(QueuePush(q, QueueCapacity, x))

\* A RevokeTask::handle that takes read() access.
LockMode_RevokeReads(kind) == IF kind = "issue" THEN "write" ELSE "read"

\* Handlers that all take read() access, the updating ones too.
LockMode_AllRead(kind) == "read"

\* The access each task's handler takes on the Controller: write() or read().
LockMode(kind) == IF kind \in {"issue", "revoke"} THEN "write" ELSE "read"

\* std RwLock: read() is granted while nobody writes, write() while nobody
\* holds the lock.
CanAcquire(l, mode) ==
    IF mode = "write" THEN l.readers = {} /\ l.writers = {} ELSE l.writers = {}

Acquired(l, mode, id) ==
    IF mode = "write" THEN [l EXCEPT !.writers = @ \cup {id}]
    ELSE [l EXCEPT !.readers = @ \cup {id}]

\* Dropping the guard.
Released(l, id) == [l EXCEPT !.readers = @ \ {id}, !.writers = @ \ {id}]

\* A get_kerl that leaves the inception event out of the stream.
KerlGetKerl_NoInception(k) ==
    [wire |-> "stream",
     body |-> [i \in 1..(Len(k.database) - 1) |-> SerializeSigned(k.database[i + 1])]]

\* EventProcessor::get_kerl: the signed events of the identifier, serialized
\* one after the other.
KerlGetKerl(k) ==
    [wire |-> "stream",
     body |-> [i \in 1..Len(k.database) |-> SerializeSigned(k.database[i])]]

\* keri signed_event_stream: parses the stream back into signed events.
ParseStream(bytes) == [i \in 1..Len(bytes.body) |-> ParseSigned(bytes.body[i])]

\* Controller::get_tel: the verifiable events of the credential, serialized
\* one after the other.
ControllerGetTel(t, message_hash) ==
    [wire |-> "stream",
     body |-> [i \in 1..Len(TelGetTel(t, message_hash)) |->
                  [wire |-> "vtel", body |-> TelGetTel(t, message_hash)[i]]]]

\* HandleResult.
HandleResult(tag, val) == [tag |-> tag, val |-> val]

\* The handlers of the read tasks: GetKelTask, GetTelTask, SignMessageTask.
HandleRead(req, km, k, t) ==
    CASE req.kind = "get_kel" -> HandleResult("GotKel", KerlGetKerl(k))
      [] req.kind = "get_tel" -> HandleResult("GotTel", ControllerGetTel(t, MessageHash(req.msg)))
      [] OTHER -> HandleResult("MessageSigned", KmSign(km, AsBytes(req.msg)))

\* IssueTask::handle and RevokeTask::handle after a successful update.
HandleUpdated(req, km) ==
    IF req.kind = "issue" THEN HandleResult("Issued", KmSign(km, AsBytes(req.msg)))
    ELSE HandleResult("Revoked", NoBytes)

\* Dispatcher::init, then listen (or not) before the producers start.
DispatcherInit ==
    /\ draft = "controller"
    /\ sigs = [m \in Msgs |-> NoSig]
    /\ last = Call("init", "", NoSig, "Ok")
    /\ \E r \in {ControllerInit(KmNew)} :
          /\ r.res = "Ok"
          /\ key_manager = r.key_manager
          /\ kerl = r.kerl
          /\ tel = r.tel
    /\ workload \in Workloads
    /\ listening \in BOOLEAN
    /\ pushed = [p \in Producers |-> 0]
    /\ queue = <<>>
    /\ task = [id \in TaskIds(workload) |-> NewTask]
    /\ lock = LockNew

\* Dispatcher::issue / revoke / get_kel / get_tel / sign: the producer makes
\* its next task and pushes it. A producer whose push failed stops (the
\* callers unwrap or return the error).
Push(p) ==
    /\ pushed[p] < Len(Script(workload, p))
    /\ \A i \in 1..pushed[p] : task[<<p, i>>].st # "rejected"
    /\ \E r \in {TaskManagerPush(queue, <<p, pushed[p] + 1>>)} :
          /\ queue' = r.q
          /\ task' = [task EXCEPT ![<<p, pushed[p] + 1>>].st =
                         IF r.res = "Ok" THEN "queued" ELSE "rejected"]
    /\ pushed' = [pushed EXCEPT ![p] = @ + 1]
    /\ UNCHANGED <<draft, key_manager, kerl, tel, sigs, last, workload, listening, lock>>

\* TaskManager::process_queue in the listener's loop: pops the oldest task
\* and spawns a thread that handles it.
ProcessQueue ==
    /\ listening
    /\ queue # <<>>
    /\ queue' = Tail(queue)
    /\ task' = [task EXCEPT ![Head(queue)].st = "spawned"]
    /\ UNCHANGED <<draft, key_manager, kerl, tel, sigs, last, workload, listening, pushed, lock>>

\* The handler takes its access to the Controller, waiting until the lock
\* grants it.
AcquireLock(id) ==
    /\ task[id].st = "spawned"
    /\ ~lock.poisoned
    /\ CanAcquire(lock, LockMode(Request(id).kind))
    /\ lock' = Acquired(lock, LockMode(Request(id).kind), id)
    /\ task' = [task EXCEPT ![id].st = "holding"]
    /\ UNCHANGED <<draft, key_manager, kerl, tel, sigs, last, workload, listening, pushed, queue>>

\* Controller::update up to kerl.process: the interaction event is in the KEL,
\* the TEL event is not processed yet.
UpdateKel(id) ==
    /\ task[id].st = "holding"
    /\ Request(id).kind \in {"issue", "revoke"}
    /\ \E r \in {Update(key_manager, kerl, tel, Request(id).kind = "issue", Request(id).msg)} :
          /\ kerl' = r.kerl
          /\ task' = [task EXCEPT ![id] = [@ EXCEPT !.st = "updating", !.res = r.res, !.tel = r.tel]]
    /\ UNCHANGED <<draft, key_manager, tel, sigs, last, workload, listening, pushed, queue, lock>>

\* A handle_and_send that puts the result on the channel although the
\* receiving end is gone.
HandleAndSend_IgnoresDisconnect(t, result) ==
    [t EXCEPT !.st = "done", !.replies = Append(@, result)]

\* AddressedTask::handle_and_send once the handler returned Ok: the result
\* is sent, or, with the receiving end dropped, send returns Err, its unwrap
\* panics the task's thread and the result is lost.
HandleAndSend(t, result) ==
    IF t.rx THEN [t EXCEPT !.st = "done", !.replies = Append(@, result)]
    ELSE [t EXCEPT !.st = "send_failed"]

\* A process_queue that runs the task in the listener's own loop, so that a
\* panic of the task ends the loop.
ListenerAfter_SameThread(running, st) == running /\ st = "done"

\* TaskManager::process_queue runs every task in a thread of its own
\* (std::thread::spawn): a panic there ends that thread only, the listener's
\* loop goes on.
ListenerAfter(running, st) == running

\* The rest of Controller::update (tel.process), the end of the handler
\* (guard dropped) and AddressedTask::handle_and_send: the result is sent, or
\* the thread panics on the unwrap of the handler's error and sends nothing.
UpdateTel(id) ==
    /\ task[id].st = "updating"
    /\ tel' = task[id].tel
    /\ lock' = Released(lock, id)
    /\ task' = [task EXCEPT ![id] =
                   IF task[id].res = "Ok"
                   THEN HandleAndSend([@ EXCEPT !.tel = TelNew],
                                      HandleUpdated(Request(id), key_manager))
                   ELSE [@ EXCEPT !.st = "panicked", !.tel = TelNew]]
    /\ listening' = ListenerAfter(listening, task'[id].st)
    /\ UNCHANGED <<draft, key_manager, kerl, sigs, last, workload, pushed, queue>>

\* A read handler under its read guard, then handle_and_send.
Read(id) ==
    /\ task[id].st = "holding"
    /\ Request(id).kind \notin {"issue", "revoke"}
    /\ lock' = Released(lock, id)
    /\ task' = [task EXCEPT ![id] =
                   HandleAndSend(@, HandleRead(Request(id), key_manager, kerl, tel))]
    /\ listening' = ListenerAfter(listening, task'[id].st)
    /\ UNCHANGED <<draft, key_manager, kerl, tel, sigs, last, workload, pushed, queue>>

\* The caller drops the receiving end of a submitted task's reply channel
\* before the reply has come.
DropReceiver(id) ==
    /\ id \in DroppedReceivers(workload)
    /\ task[id].rx
    /\ task[id].st \in {"queued", "spawned", "holding", "updating"}
    /\ task' = [task EXCEPT ![id].rx = FALSE]
    /\ UNCHANGED <<draft, key_manager, kerl, tel, sigs, last, workload, listening, pushed, queue, lock>>

DispatcherNext ==
    \/ \E id \in TaskIds(workload) : DropReceiver(id)
    \/ \E p \in Producers : Push(p)
    \/ ProcessQueue
    \/ \E id \in TaskIds(workload) : AcquireLock(id)
    \/ \E id \in TaskIds(workload) : UpdateKel(id)
    \/ \E id \in TaskIds(workload) : UpdateTel(id)
    \/ \E id \in TaskIds(workload) : Read(id)

DispatcherSpec == DispatcherInit /\ [][DispatcherNext]_vars

\* -------------------------------------------- Dispatcher, failing signer

\* A guard dropped by a thread that unwinds from a panic: an exclusive guard
\* poisons the RwLock, a shared one does not.
ReleasedByPanic(l, id) ==
    [l EXCEPT !.readers = @ \ {id}, !.writers = @ \ {id},
              !.poisoned = @ \/ id \in l.writers]

\* Controller::update under the write guard of IssueTask / RevokeTask: the
\* key manager's sign returns Err and its unwrap panics the handler's thread
\* before anything is written; the guard is dropped while unwinding.
SignPanics(id) ==
    /\ task[id].st = "holding"
    /\ Request(id).kind \in {"issue", "revoke"}
    /\ lock' = ReleasedByPanic(lock, id)
    /\ task' = [task EXCEPT ![id].st = "panicked"]
    /\ UNCHANGED <<draft, key_manager, kerl, tel, sigs, last, workload, listening, pushed, queue>>

\* controller.write().unwrap() / controller.read().unwrap() on a poisoned
\* lock: the lock answers Err(PoisonError) and the unwrap panics the task's
\* thread; nothing is sent.
AcquirePoisoned(id) ==
    /\ task[id].st = "spawned"
    /\ lock.poisoned
    /\ CanAcquire(lock, LockMode(Request(id).kind))
    /\ task' = [task EXCEPT ![id].st = "poisoned"]
    /\ UNCHANGED <<draft, key_manager, kerl, tel, sigs, last, workload, listening, pushed, queue, lock>>

\* Every task id of every workload.
AllTaskIds == UNION {TaskIds(w) : w \in Workloads}

\* The listener's loop and the threads it spawns keep running: the loop
\* pops whenever the queue is not empty, and a spawned thread goes on to
\* take the lock, run its handler and send.
Worker ==
    \/ ProcessQueue
    \/ \E id \in TaskIds(workload) : AcquireLock(id)
    \/ \E id \in TaskIds(workload) : UpdateKel(id)
    \/ \E id \in TaskIds(workload) : UpdateTel(id)
    \/ \E id \in TaskIds(workload) : Read(id)

\* The dispatcher with listen running, serving one producer.
ListeningInit ==
    /\ DispatcherInit
    /\ listening
    /\ workload \in {"responses", "revocation", "reissue", "dropped"}

\* The producer thread runs on to its next push as well.
DispatcherFairSpec ==
    /\ ListeningInit
    /\ [][DispatcherNext]_vars
    /\ WF_vars(Worker)
    /\ WF_vars(\E p \in Producers : Push(p))

DispatcherFaultNext ==
    \/ DispatcherNext
    \/ \E id \in TaskIds(workload) : SignPanics(id)
    \/ \E id \in TaskIds(workload) : AcquirePoisoned(id)

\* The listening dispatcher with a key manager whose sign may fail.
DispatcherFaultSpec == ListeningInit /\ [][DispatcherFaultNext]_vars

\* ------------------------------------------------------------ claims

\* The TelState and the persisted events of a message's credential.
VcState(m) == TelGetVcState(tel, MessageHash(m))
SubTel(m) == TelGetTel(tel, MessageHash(m))

\* Every TEL event persisted so far, management and per credential.
PersistedTelEvents ==
    {tel.database.mgmt[i] : i \in 1..Len(tel.database.mgmt)}
    \cup UNION {{SubTel(m)[i] : i \in 1..Len(SubTel(m))} : m \in Msgs}

\* The positions of the persisted TEL events, and the source seal at each.
TelSlots ==
    {<<"mgmt", i>> : i \in 1..Len(tel.database.mgmt)}
    \cup UNION {{<<m, i>> : i \in 1..Len(SubTel(m))} : m \in AllMsgs}
SealAt(slot) ==
    IF slot[1] = "mgmt" THEN tel.database.mgmt[slot[2]].seal ELSE SubTel(slot[1])[slot[2]].seal

\* C1: a credential that is issued and not revoked verifies (Ok(true)) with
\* the signature issue returned for it, before and after any rotations.
C1_IssuedVerifies ==
    draft = "issuer" =>
        \A m \in Msgs :
            VcState(m).tag = "Issued" =>
                /\ sigs[m] # NoSig
                /\ Verify(kerl, tel, m, sigs[m]) = "Ok(true)"

\* C1 witness: verify answered Ok(true) for the returned signature after a
\* rotation of the keys.
C1_Witness ==
    /\ last.op = "verify"
    /\ last.res = "Ok(true)"
    /\ last.sig = sigs[last.msg]
    /\ key_manager.current >= 1
    /\ \E i \in 1..Len(kerl.database) : kerl.database[i].event_message.ilk = "rot"

\* C2: a revoked credential fails verification with "VC was revoked" for
\* every signature, whatever rotations happened before or after.
C2_RevokedFails ==
    draft = "issuer" =>
        \A m \in Msgs :
            VcState(m).tag = "Revoked" =>
                \A sig \in SigInputs(m) : Verify(kerl, tel, m, sig) = "Err(VC was revoked)"

\* C2 witness: after a revocation and a rotation, verify of the signature
\* issue returned answered "VC was revoked".
C2_Witness ==
    /\ last.op = "verify"
    /\ last.res = "Err(VC was revoked)"
    /\ last.sig # NoSig
    /\ last.sig = sigs[last.msg]
    /\ key_manager.current >= 1

\* C3: verify of a message that was never issued fails with "Not yet
\* issued" for every signature, and the call changes neither KEL nor TEL.
C3_NeverIssuedFails ==
    [][(last'.op = "verify" /\ SubTel(last'.msg) = <<>>) =>
          /\ last'.res = "Err(Not yet issued)"
          /\ kerl' = kerl
          /\ tel' = tel]_vars

\* C3 witness: verify answered "Not yet issued" for a message without events
\* while another credential had been issued.
C3_Witness ==
    /\ last.op = "verify"
    /\ last.res = "Err(Not yet issued)"
    /\ SubTel(last.msg) = <<>>
    /\ \E m \in Msgs : VcState(m).tag = "Issued"

\* The shape of a credential's sub-TEL in each TelState.
SubTelWellFormed(m) ==
    LET evs == SubTel(m)
    IN  CASE VcState(m).tag = "NotIssued" -> evs = <<>>
          [] VcState(m).tag = "Issued" ->
               /\ Len(evs) = 1
               /\ evs[1].event.ilk = "bis"
               /\ evs[1].event.sn = 0
          [] OTHER ->
               /\ Len(evs) = 2
               /\ evs[1].event.ilk = "bis"
               /\ evs[1].event.sn = 0
               /\ evs[2].event.ilk = "brv"
               /\ evs[2].event.sn = 1
               /\ evs[2].event.prev = Derive(SerializeTel(evs[1].event))

\* The transitions a credential may take in one step.
VcTransitionAllowed(from, to) ==
    \/ from = to
    \/ from = "NotIssued" /\ to = "Issued"
    \/ from = "Issued" /\ to = "Revoked"

\* C4: each credential's sub-TEL is empty, [Iss sn 0] or [Iss sn 0, Rev sn 1
\* chained to the Iss], and it only moves NotIssued -> Issued -> Revoked.
C4_SubTelLifecycle ==
    /\ \A m \in Msgs : SubTelWellFormed(m)
    /\ [][\A m \in Msgs :
            /\ SubTelWellFormed(m)'
            /\ VcTransitionAllowed(VcState(m).tag, VcState(m)'.tag)]_vars

\* C4 witness: a revoked credential with its two events, on which a further
\* issue was attempted.
C4_Witness ==
    /\ last.op \in {"issue", "update_issue"}
    /\ VcState(last.msg).tag = "Revoked"
    /\ Len(SubTel(last.msg)) = 2

\* C5: the KEL event a persisted TEL event's source seal points at carries
\* the event seal of that TEL event: check_seal answers true.
C5_SealsAnchored ==
    \A ve \in PersistedTelEvents :
        KerlCheckSeal(kerl, ve.seal.sn, TelGetIssuer(tel), ve.event) = "true"

\* C5 witness: management inception, a backer rotation, an issuance and a
\* revocation are all persisted.
C5_Witness ==
    /\ Len(tel.database.mgmt) = 2
    /\ \E m \in Msgs : Len(SubTel(m)) = 2

\* C6: the digest of every persisted TEL event's source seal binds to the
\* unsigned KEL event at the seal's sn, so get_state_for_seal succeeds.
C6_SourceSealBindsUnsigned ==
    \A ve \in PersistedTelEvents :
        KerlGetStateForSeal(kerl, TelGetIssuer(tel), ve.seal.sn, ve.seal.digest).res = "some"

\* The calls that mutate the KEL and the TEL.
MutatingOps == {"issue", "revoke", "update_backers", "update_issue", "update_revoke"}

\* C7: a mutating call that returns an error leaves the KEL and the TEL as
\* they were before the call.
C7_NoPartialWrite ==
    [][(last'.op \in MutatingOps /\ last'.res # "Ok") =>
          (kerl' = kerl /\ tel' = tel)]_vars

\* C8: issuing a message whose credential already has an Iss event fails
\* with AlreadyIssued and leaves the credential's TEL state and events as
\* they were.
C8_SecondIssueRejected ==
    [][(last'.op \in {"issue", "update_issue"} /\ SubTel(last'.msg) # <<>>) =>
          /\ last'.res = "Err(AlreadyIssued)"
          /\ TelGetTel(tel', MessageHash(last'.msg)) = SubTel(last'.msg)
          /\ TelGetVcState(tel', MessageHash(last'.msg)) = VcState(last'.msg)]_vars

\* C8 witness: an issue attempted on an issued credential was answered
\* AlreadyIssued.
C8_Witness ==
    /\ last.op \in {"issue", "update_issue"}
    /\ last.res = "Err(AlreadyIssued)"
    /\ VcState(last.msg).tag = "Issued"

\* C9: revoking a credential that is not Issued fails with the improper
\* state error before anything is written: KEL and TEL are unchanged.
C9_RevokeNeedsIssued ==
    [][(last'.op \in {"revoke", "update_revoke"} /\ VcState(last'.msg).tag # "Issued") =>
          /\ last'.res = "Err(Inproper vc state)"
          /\ kerl' = kerl
          /\ tel' = tel]_vars

\* C9 witness: a revoke of an already revoked credential was refused.
C9_Witness ==
    /\ last.op \in {"revoke", "update_revoke"}
    /\ last.res = "Err(Inproper vc state)"
    /\ VcState(last.msg).tag = "Revoked"

\* The interaction and the rotation event the KEL engine would generate in
\* this state.
NextIxn == KerlMakeIxnWithSeal(kerl, <<>>, key_manager)
NextRot == KerlRotate(kerl, KmRotate(key_manager))

\* C10: the KEL is a hash chain with consecutive sequence numbers: one Icp,
\* at sn 0; position i holds sn i; every later event names the digest of its
\* predecessor; and the events make_ixn_with_seal and rotate generate
\* extend the chain at state.sn + 1.
C10_KelHashChain ==
    LET db == kerl.database
        st == KerlGetState(kerl).st
    IN  /\ Len(db) >= 1
        /\ db[1].event_message.ilk = "icp"
        /\ \A i \in 1..Len(db) :
             /\ db[i].event_message.sn = i - 1
             /\ i > 1 => /\ db[i].event_message.ilk # "icp"
                         /\ db[i].event_message.prior = Derive(Serialize(db[i - 1].event_message))
        /\ st.sn = Len(db) - 1
        /\ \A g \in {NextIxn, NextRot} :
             /\ g.ok
             /\ g.ev.event_message.sn = st.sn + 1
             /\ g.ev.event_message.prior = Derive(Serialize(db[Len(db)].event_message))

\* C10 witness: a KEL with its inception, interaction events and a rotation
\* followed by a further interaction event.
C10_Witness ==
    LET db == kerl.database
    IN  /\ Len(db) >= 5
        /\ \E i \in 1..(Len(db) - 1) :
             /\ db[i].event_message.ilk = "rot"
             /\ db[i + 1].event_message.ilk = "ixn"

\* ------------------------------------------------ claims (Dispatcher)

\* The replies a task's channel holds.
Replies(id) == task[id].replies

\* A parsed event stream is one inception event followed by interaction
\* events only, each one sequence number after, and chained to, the event
\* before it.
IcpThenIxns(evs) ==
    /\ Len(evs) >= 1
    /\ evs[1].event_message.ilk = "icp"
    /\ evs[1].event_message.sn = 0
    /\ \A i \in 2..Len(evs) :
          /\ evs[i].event_message.ilk = "ixn"
          /\ evs[i].event_message.sn = evs[i - 1].event_message.sn + 1
          /\ VerifyBinding(evs[i].event_message.prior, Serialize(evs[i - 1].event_message))

\* The same with rotation events allowed after the inception.
IcpThenIxnsOrRots(evs) ==
    /\ Len(evs) >= 1
    /\ evs[1].event_message.ilk = "icp"
    /\ evs[1].event_message.sn = 0
    /\ \A i \in 2..Len(evs) :
          /\ evs[i].event_message.ilk \in {"ixn", "rot"}
          /\ evs[i].event_message.sn = evs[i - 1].event_message.sn + 1
          /\ VerifyBinding(evs[i].event_message.prior, Serialize(evs[i - 1].event_message))

DoneIssues ==
    {id \in TaskIds(workload) :
        Request(id).kind = "issue" /\ task[id].st \in {"done", "send_failed"}}
OnlyIssuesSucceeded ==
    \A id \in TaskIds(workload) :
        /\ Request(id).kind = "revoke" =>
              task[id].st \notin {"updating", "done", "panicked", "send_failed"}
        /\ Request(id).kind = "issue" =>
              /\ task[id].st # "panicked"
              /\ task[id].st = "updating" => task[id].res = "Ok"

\* C12: after init and k successful issues of distinct messages, whether
\* their tasks ran one after the other or interleaved with get_kel reads,
\* the KEL is one Icp and k + 1 Ixn events with sn 0..k+1 in order, and
\* that is what a get_kel task replies with (for k = 1: Icp, Ixn, Ixn).
C12_KelAfterIssues ==
    /\ [](OnlyIssuesSucceeded /\ lock.writers = {} =>
            /\ Len(kerl.database) = Cardinality(DoneIssues) + 2
            /\ IcpThenIxns(ParseStream(KerlGetKerl(kerl))))
    /\ [][\A id \in TaskIds(workload) :
            (OnlyIssuesSucceeded /\ Request(id).kind = "get_kel"
                /\ Replies(id) = <<>> /\ task'[id].replies # <<>>) =>
              /\ task'[id].replies[1].tag = "GotKel"
              /\ Len(ParseStream(task'[id].replies[1].val)) = Cardinality(DoneIssues) + 2
              /\ IcpThenIxns(ParseStream(task'[id].replies[1].val))]_vars

\* C12 witness: three concurrent issues completed and a get_kel task
\* replied with Icp, Ixn, Ixn between them.
C12_Witness ==
    /\ OnlyIssuesSucceeded
    /\ Cardinality(DoneIssues) = 3
    /\ Len(kerl.database) = 5
    /\ \E id \in TaskIds(workload) :
          /\ Replies(id) # <<>>
          /\ Replies(id)[1].tag = "GotKel"
          /\ Len(ParseStream(Replies(id)[1].val)) = 3

\* C13: no two persisted TEL events, management or per credential, have the
\* same source seal; each seal names a KEL interaction event of its own.
C13_SourceSealsDistinct ==
    \A a \in TelSlots :
        /\ KerlGetEventAtSn(kerl, KerlGetPrefix(kerl), SealAt(a).sn).some
        /\ KerlGetEventAtSn(kerl, KerlGetPrefix(kerl), SealAt(a).sn).ev.ilk = "ixn"
        /\ \A b \in TelSlots \ {a} :
              /\ SealAt(a) # SealAt(b)
              /\ SealAt(a).sn # SealAt(b).sn

\* C13 witness: management and credential events of two credentials are
\* persisted, four TEL events in all.
C13_Witness ==
    /\ Cardinality(TelSlots) >= 4
    /\ \E m1, m2 \in Msgs : m1 # m2 /\ SubTel(m1) # <<>> /\ SubTel(m2) # <<>>

\* Every interaction event of the KEL is named by the source seal of a
\* persisted TEL event, and every persisted TEL event is sealed in the
\* interaction event its source seal names.
LogsPaired ==
    /\ \A i \in 2..Len(kerl.database) : \E a \in TelSlots : SealAt(a).sn = i - 1
    /\ \A a \in TelSlots :
          KerlGetEventAtSn(kerl, KerlGetPrefix(kerl), SealAt(a).sn).ev.ilk = "ixn"

\* The tasks whose handler only reads the Controller.
ReadTasks == {id \in TaskIds(workload) : Request(id).kind \in {"get_kel", "get_tel", "sign"}}

\* C14: whenever a read task (get_kel, get_tel, sign) run by the dispatcher
\* next to mutating tasks reads the Controller, every interaction event in
\* the KEL has its TEL event in the TEL and the other way round.
C14_ReadsSeePairedLogs ==
    [][\A id \in ReadTasks :
          (Replies(id) = <<>> /\ task'[id].replies # <<>>) => LogsPaired]_vars

\* The tasks whose handler is inside its guarded block.
Inside == {id \in TaskIds(workload) : task[id].st \in {"holding", "updating"}}

\* C15: at most one task mutates the KEL and the TEL at a time. Issue and
\* revoke handlers hold exclusive access from before the KEL write until
\* after the TEL write, get_kel, get_tel and sign handlers hold shared
\* access, no reader holds access while a writer does, and the logs change
\* only in a step of the one task that holds exclusive access.
C15_ExclusiveWriters ==
    /\ [](/\ Cardinality(lock.writers) <= 1
          /\ lock.writers # {} => lock.readers = {}
          /\ lock.writers = Inside \ ReadTasks
          /\ lock.readers = Inside \cap ReadTasks
          /\ \A id \in ReadTasks : task[id].st # "updating")
    /\ [][(kerl' # kerl \/ tel' # tel) =>
            \E id \in TaskIds(workload) \ ReadTasks :
                /\ lock.writers = {id}
                /\ lock.readers = {}
                /\ task'[id].st \in {"updating", "done", "panicked", "send_failed"}]_vars

\* C15 witness: an issue handler is between its KEL write and its TEL write
\* while another mutating task and a read task wait for the lock.
C15_Witness ==
    \E w \in TaskIds(workload) :
        /\ task[w].st = "updating"
        /\ lock.writers = {w}
        /\ Len(kerl.database) > Cardinality(TelSlots) + 1
        /\ \E r \in ReadTasks : task[r].st = "spawned"
        /\ \E x \in TaskIds(workload) \ (ReadTasks \cup {w}) : task[x].st = "spawned"

\* The tasks waiting in the queue.
Queued == {queue[i] : i \in 1..Len(queue)}

\* C16: the queue never holds more than its capacity (5); a push made when
\* it holds 5 tasks returns at once with the queue-full error and leaves
\* the queue as it was; the rejected task is never queued, never run and
\* never answered.
C16_QueueBounded ==
    /\ [](/\ Len(queue) <= QueueCapacity
          /\ \A id \in TaskIds(workload) :
                task[id].st = "rejected" => Replies(id) = <<>> /\ id \notin Queued)
    /\ [][\A p \in Producers :
            /\ (pushed'[p] # pushed[p] /\ Len(queue) = QueueCapacity) =>
                  /\ queue' = queue
                  /\ TaskManagerPush(queue, <<p, pushed'[p]>>).res = "Err(QueueError)"
                  /\ task'[<<p, pushed'[p]>>].st = "rejected"
            /\ (pushed'[p] # pushed[p] /\ Len(queue) < QueueCapacity) =>
                  /\ queue' = Append(queue, <<p, pushed'[p]>>)
                  /\ task'[<<p, pushed'[p]>>].st = "queued"]_vars
    /\ [][\A id \in TaskIds(workload) :
            task[id].st = "rejected" => task'[id].st = "rejected"]_vars

\* C16 witness: no consumer is running, five tasks are queued and the sixth
\* push was rejected.
C16_Witness ==
    /\ ~listening
    /\ Len(queue) = QueueCapacity
    /\ \E p \in Producers : pushed[p] = 6 /\ task[<<p, 6>>].st = "rejected"

\* The tasks push accepted.
Accepted(id) ==
    id \in TaskIds(workload) /\ task[id].st \notin {"unsubmitted", "rejected"}

\* C17: with listen running, every task push accepted is eventually
\* executed and exactly one HandleResult arrives on its channel, whether
\* its handler succeeds or fails; no task is ever answered twice.
C17_ExactlyOneReply ==
    /\ listening =>
          <>[](\A id \in TaskIds(workload) :
                  (Accepted(id) /\ task[id].rx) => Len(Replies(id)) = 1)
    /\ [](\A id \in TaskIds(workload) : Len(Replies(id)) <= 1)

\* C18: an issue or revoke task whose Controller::update fails replies
\* with HandleResult::Failure carrying the error; its worker never panics
\* and leaves the caller without a reply.
C18_FailureReplied ==
    [][\A id \in TaskIds(workload) \ ReadTasks :
          (task[id].st = "updating" /\ task[id].res # "Ok" /\ task'[id].st # "updating") =>
              /\ task'[id].st # "panicked"
              /\ task'[id].replies = <<HandleResult("Failure", task[id].res)>>]_vars

\* C19: tasks pushed by one producer take effect on the Controller in the
\* order they were pushed: the handler of a later task does not enter its
\* guarded block before the handler of every earlier accepted task of the
\* same producer has finished, so a revoke pushed after the issue of the
\* same credential never fails.
C19_SubmissionOrder ==
    /\ \A p \in Producers : \A i, j \in 1..pushed[p] :
          (i < j /\ task[<<p, j>>].st \in {"holding", "updating", "done", "panicked", "send_failed"}) =>
              task[<<p, i>>].st \in {"done", "panicked", "send_failed", "rejected"}
    /\ workload = "revocation" => task[<<"p1", 2>>].st # "panicked"

\* C20: when concurrent producers each submit the issue of a message of
\* its own or a get_kel to the listening dispatcher (more producers than
\* the queue has room for), every push is accepted, every issue is
\* answered with Issued and every get_kel with GotKel.
C20_AllAcceptedAndAnswered ==
    (workload = "multithread" /\ listening) =>
        \A id \in TaskIds(workload) :
            /\ task[id].st \notin {"rejected", "panicked"}
            /\ task[id].st = "done" =>
                  /\ Len(Replies(id)) = 1
                  /\ Replies(id)[1].tag =
                        (IF Request(id).kind = "issue" THEN "Issued" ELSE "GotKel")

\* ------------------------------------------------ claims (key state, seals)

\* The keys of the latest establishment event (icp, rot) among the KEL events
\* with sequence numbers 0..sn.
KeysAtSn(sn) ==
    LET Est == {i \in 1..(sn + 1) : kerl.database[i].event_message.ilk \in {"icp", "rot"}}
        Latest(i) == kerl.database[i].event_message.keys
    IN  Latest(CHOOSE i \in Est : \A j \in Est : j <= i)

\* C21: verify checks a signature against the keys that were current at the
\* sn of the interaction event anchoring the credential's Iss event, not
\* against the current keys: after a rotate a signature made with the new
\* key over a message issued before gets Ok(false), the one made with the
\* issuance-time key gets Ok(true).
C21_IssuanceTimeKeys ==
    draft = "issuer" =>
        \A m \in Msgs :
            VcState(m).tag = "Issued" =>
                \A key \in 0..MaxRot :
                    Verify(kerl, tel, m, SignWith(key, AsBytes(m))) =
                        (IF <<key>> = KeysAtSn(SubTel(m)[1].seal.sn)
                         THEN "Ok(true)" ELSE "Ok(false)")

\* C21 witness: a credential was issued under key 0, the keys were rotated,
\* and verify answered Ok(false) for the signature of the new current key.
C21_Witness ==
    /\ last.op = "verify"
    /\ last.res = "Ok(false)"
    /\ key_manager.current = 1
    /\ last.sig = SignWith(key_manager.current, AsBytes(last.msg))
    /\ VcState(last.msg).tag = "Issued"
    /\ KeysAtSn(SubTel(last.msg)[1].seal.sn) = <<0>>
    /\ KerlGetState(kerl).st.current = <<1>>

\* ------------------------------------------- claims (dropped receivers)

\* The reply a task of the given request gets when its handler succeeds.
ExpectedTag(req) ==
    CASE req.kind = "issue" -> "Issued"
      [] req.kind = "revoke" -> "Revoked"
      [] req.kind = "get_kel" -> "GotKel"
      [] req.kind = "get_tel" -> "GotTel"
      [] OTHER -> "MessageSigned"

\* C22: when the caller has dropped the receiving end of a task's reply
\* channel, the send fails and the result is lost, the lock is released and
\* the listener keeps running; every other task, pushed before or after,
\* is still executed and answered, and a dropped issue still took effect.
C22_DroppedReceiverTolerated ==
    /\ [][\A id \in TaskIds(workload) :
            (~task[id].rx /\ task[id].st # "send_failed" /\ task'[id].st = "send_failed") =>
                /\ task'[id].replies = <<>>
                /\ id \notin (lock'.readers \cup lock'.writers)
                /\ listening' = listening]_vars
    /\ [](\A id \in TaskIds(workload) :
            task[id].st = "send_failed" => ~task[id].rx /\ Replies(id) = <<>>)
    /\ workload = "dropped" =>
          <>[](/\ Len(kerl.database) = 4
               /\ \A id \in TaskIds(workload) :
                     IF task[id].rx
                     THEN /\ task[id].st = "done"
                          /\ Len(Replies(id)) = 1
                          /\ Replies(id)[1].tag = ExpectedTag(Request(id))
                     ELSE /\ task[id].st = "send_failed"
                          /\ Replies(id) = <<>>)

\* C22 witness: the receivers of the first get_kel and of the first issue
\* were dropped, both sends failed, and the issue and the get_kel pushed
\* after them were executed and answered.
C22_Witness ==
    /\ workload = "dropped"
    /\ listening
    /\ task[<<"p1", 1>>].st = "send_failed"
    /\ task[<<"p1", 2>>].st = "send_failed"
    /\ Replies(<<"p1", 3>>) # <<>>
    /\ Replies(<<"p1", 3>>)[1].tag = "Issued"
    /\ Replies(<<"p1", 4>>) # <<>>
    /\ Replies(<<"p1", 4>>)[1].tag = "GotKel"
    /\ Len(ParseStream(Replies(<<"p1", 4>>)[1].val)) = 4

\* ------------------------------------------------ claims (write order)

\* The persisted TEL event at a position.
TelEventAt(slot) ==
    IF slot[1] = "mgmt" THEN tel.database.mgmt[slot[2]].event ELSE SubTel(slot[1])[slot[2]].event

\* The interaction events of the KEL that no persisted TEL event is
\* anchored in (orphan seals).
OrphanIxns ==
    {i \in 1..Len(kerl.database) :
        /\ kerl.database[i].event_message.ilk = "ixn"
        /\ \A a \in TelSlots : SealAt(a).sn # i - 1}

\* C23: in every TEL mutation the anchoring interaction event is persisted
\* before the TEL event. In every state, the ones a process killed between
\* the two writes leaves behind included, each persisted TEL event has its
\* interaction event in the KEL; no step writes the TEL without the KEL
\* holding the anchor, and KEL events are never taken back. What can be
\* left over is an interaction event without its TEL event.
C23_KelWrittenFirst ==
    /\ [](\A a \in TelSlots :
            /\ KerlGetEventAtSn(kerl, KerlGetPrefix(kerl), SealAt(a).sn).some
            /\ KerlCheckSeal(kerl, SealAt(a).sn, KerlGetPrefix(kerl), TelEventAt(a)) = "true")
    /\ [][/\ Len(kerl'.database) >= Len(kerl.database)
          /\ SubSeq(kerl'.database, 1, Len(kerl.database)) = kerl.database
          /\ tel' # tel => Len(kerl'.database) = Len(kerl.database) + 1
          /\ last'.op = "crash" =>
                /\ tel' = tel
                /\ Len(kerl'.database) = Len(kerl.database) + 1
                /\ Len(kerl'.database) \in OrphanIxns']_vars

\* C23 witness: the process was killed between the two writes of a
\* revocation; the TEL holds the management inception and two issuances, all
\* anchored, and the KEL ends with an interaction event without TEL event.
C23_Witness ==
    /\ last = Call("crash", "", NoSig, "revoke")
    /\ Cardinality(TelSlots) = 3
    /\ OrphanIxns = {Len(kerl.database)}
    /\ \A a \in TelSlots :
          KerlCheckSeal(kerl, SealAt(a).sn, KerlGetPrefix(kerl), TelEventAt(a)) = "true"

\* ---------------------------------------------- claims (verify threshold)

\* The keys of the key state that validate the signature over the message.
ValidKeys(call) ==
    {i \in 1..Len(call.keys) : VerifySig(call.keys[i], AsBytes(call.msg), call.sig)}

SingleKeyVerifyAgrees ==
    (last.op = "verify_keys" /\ Len(last.keys) = 1) =>
        last.res = IF Cardinality(ValidKeys(last)) >= last.threshold
                   THEN "Ok(true)"
                   ELSE "Ok(false)"

\* ------------------------------------------------ claims (KERL interface)

\* C25: a rotation is accepted only if the digest of the key manager's
\* current keys is the next-key digest committed by the previous
\* establishment event; when it is not, the rotation is rejected and the KEL
\* (events, sn, current keys) is unchanged.
C25_RotationCommitment ==
    [][last'.op = "rotate" =>
          /\ last'.res = "Ok" =>
                /\ KeysDigest(<<last'.km.current>>) = KerlGetState(kerl).st.next
                /\ Len(kerl'.database) = Len(kerl.database) + 1
                /\ KerlGetState(kerl').st.current = <<last'.km.current>>
          /\ KeysDigest(<<last'.km.current>>) # KerlGetState(kerl).st.next =>
                /\ last'.res # "Ok"
                /\ kerl' = kerl
                /\ KerlGetState(kerl').st = KerlGetState(kerl).st]_vars

\* C25 witness: a rotation with a key manager that was not rotated has been
\* rejected, after an accepted one would have been possible.
C25_Witness ==
    /\ last.op = "rotate"
    /\ last.res # "Ok"
    /\ KeysDigest(<<last.km.current>>) # KerlGetState(kerl).st.next
    /\ Len(kerl.database) >= 2

\* The KEL event with sequence number sn.
KelEventAt(sn) == kerl.database[sn + 1].event_message

\* C26: get_state_for_seal answers the state folded over the events 0..sn
\* only when the digest binds to the event at sn, a digest-mismatch error
\* when it does not, and None when the KEL has no event at sn.
C26_StateForSeal ==
    last.op = "get_state_for_seal" =>
        IF last.prefix # kerl.prefix \/ last.sn + 1 > Len(kerl.database)
        THEN last.res = "none"
        ELSE IF last.digest = Derive(Serialize(KelEventAt(last.sn)))
        THEN /\ last.res = "some"
             /\ last.st.prefix = kerl.prefix
             /\ last.st.sn = last.sn
             /\ last.st.last = Serialize(KelEventAt(last.sn))
             /\ last.st.current = KeysAtSn(last.sn)
        ELSE last.res = "err"

\* C26 witness: the state asked for is the one before a rotation that the
\* log holds, so it differs from the latest state.
C26_Witness ==
    /\ last.op = "get_state_for_seal"
    /\ last.res = "some"
    /\ last.sn + 1 < Len(kerl.database)
    /\ last.st.current # KerlGetState(kerl).st.current

\* Some event seal of the KEL event at sn names the TEL event: prefix, sn and
\* a digest that binds to the serialized event.
SealNames(sn, tel_ev) ==
    \E i \in 1..Len(KelEventAt(sn).data) :
        /\ KelEventAt(sn).data[i].type = "event"
        /\ KelEventAt(sn).data[i].prefix = tel_ev.prefix
        /\ KelEventAt(sn).data[i].sn = tel_ev.sn
        /\ KelEventAt(sn).data[i].event_digest = Derive(SerializeTel(tel_ev))

\* C27: check_seal answers true exactly when the KEL event at sn holds an
\* event seal naming the TEL event (digest seals never match), and reports a
\* missing KEL event at sn as an error, not as false or a panic.
C27_CheckSeal ==
    last.op = "check_seal" =>
        IF last.sn + 1 > Len(kerl.database)
        THEN last.res = "err"
        ELSE last.res = IF SealNames(last.sn, last.tel_ev) THEN "true" ELSE "false"

\* check_seal on the events the KEL holds: the answer is true exactly when an
\* event seal names the TEL event.
CheckSealOnPresentEvent ==
    (last.op = "check_seal" /\ last.sn + 1 <= Len(kerl.database)) =>
        last.res = IF SealNames(last.sn, last.tel_ev) THEN "true" ELSE "false"

\* -------------------------------------------------- claims (Tel interface)

C29_NoBackersNoRotation ==
    [][(last'.op = "update_backers" /\ ~TelGetManagementTelState(tel).hasBackers)
          => /\ last'.res = "Err(ImproperConfig)"
             /\ kerl' = kerl
             /\ tel' = tel]_vars

\* C29 witness: update_backers has failed on a NoBackers TEL that already
\* holds a credential.
C29_Witness ==
    /\ last.op = "update_backers"
    /\ last.res = "Err(ImproperConfig)"
    /\ ~TelGetManagementTelState(tel).hasBackers
    /\ Len(tel.database.mgmt) = 1
    /\ \E h \in VcHashes : tel.database.vc[h] # <<>>

\* C30: after every rotate(), Ok or Err, the key manager's current key is the
\* current key of the folded KEL state, so that every later issue or revoke
\* still produces an interaction event that passes signature validation.
C30_KeyManagerInStep ==
    /\ last.op = "rotate" =>
          KerlGetState(kerl).st.current = <<key_manager.current>>
    /\ last.op \in {"issue", "revoke"} => last.res # "Err(KeriError)"

\* ------------------------------------------ claims (issue after rotation)

\* The keys of the establishment events before the one in force at sn.
PreRotationKeys(sn) ==
    {kerl.database[i].event_message.keys[1] :
        i \in {j \in 1..(sn + 1) :
                  /\ kerl.database[j].event_message.ilk \in {"icp", "rot"}
                  /\ kerl.database[j].event_message.keys # KeysAtSn(sn)}}

\* C31: a credential issued after one or more rotations is anchored under
\* the rotated key state: the signature its issue returned verifies, and a
\* signature over the same message by any pre-rotation key does not.
C31_IssuedUnderRotatedKeys ==
    draft = "issuer" =>
        \A m \in Msgs :
            (/\ VcState(m).tag = "Issued"
             /\ PreRotationKeys(SubTel(m)[1].seal.sn) # {}) =>
                /\ Verify(kerl, tel, m, sigs[m]) = "Ok(true)"
                /\ \A key \in PreRotationKeys(SubTel(m)[1].seal.sn) :
                       Verify(kerl, tel, m, SignWith(key, AsBytes(m))) = "Ok(false)"

\* C31 witness: after a rotation a credential was issued, and verify has
\* answered Ok(false) for a signature made with the inception key.
C31_Witness ==
    /\ last.op = "verify"
    /\ last.res = "Ok(false)"
    /\ last.sig = SignWith(0, AsBytes(last.msg))
    /\ VcState(last.msg).tag = "Issued"
    /\ sigs[last.msg] = SignWith(1, AsBytes(last.msg))
    /\ 0 \in PreRotationKeys(SubTel(last.msg)[1].seal.sn)

\* ------------------------------------------- claims (failing handlers)

\* The tasks whose handler failed or whose thread panicked.
FailedTasks == {id \in TaskIds(workload) : task[id].st \in {"panicked", "send_failed"}}

\* C32: a task whose handler fails or panics never disables the dispatcher
\* for other tasks: it leaves the Controller's lock neither held nor
\* poisoned, and no task pushed afterwards fails to acquire the Controller.
C32_FailureLeavesLockUsable ==
    /\ \A id \in FailedTasks :
          /\ id \notin lock.readers \cup lock.writers
          /\ ~lock.poisoned
    /\ \A id \in TaskIds(workload) : task[id].st # "poisoned"

====
